---- MODULE Spec2Model ----
(***************************************************************************)
(* Durable event scheduling of ntfy-fetch: the EventQueue store            *)
(* (src/core/EventQueue.ts) and the EventScheduler that arms timers,       *)
(* reconciles and delivers (the EventScheduler class, kept in              *)
(* src/core/EventBus.ts).                                                  *)
(*                                                                         *)
(* Time is counted in seconds.  One action is one run-to-completion piece  *)
(* of a handler: from its entry, or from the return of the gateway call    *)
(* it was suspended in, up to the next gateway call or its end.  The store *)
(* methods are async but do no I/O, so the awaits on them resolve in the   *)
(* same macrotask; the gateway call (an HTTP request) is where a handler   *)
(* is suspended and other callbacks run.                                   *)
(*                                                                         *)
(* The record fields that neither the store's retry policy nor the         *)
(* scheduler reads (payload, metadata, pluginName, timestamps other than   *)
(* scheduledFor) are left out of the scheduler's specifications, and so is *)
(* the write side of persistence (scheduleSave, saveEvents): no decision   *)
(* of the scheduler reads it.  SpecStore models the store on its own, with *)
(* updatedAt, the debounced flush and the two files it writes.             *)
(***************************************************************************)
EXTENDS Integers, Sequences, FiniteSets, Bags, TLC

\* ---------------------------------------------------------------- bounds
MaxTime == 2
MaxCalls == 4
MaxTasks == 3
MaxSaves == 2
MaxFailures == 8

\* ------------------------------------------------------ program constants
ScheduleHorizonHours == 6
BackoffCapSeconds == 60
DefaultMaxRetries == 3
RetentionHours == 48

\* The event ids the model follows.
Ids == {1, 2}
Horizon == ScheduleHorizonHours * 60 * 60
Retention == RetentionHours * 60 * 60

\* What the callers pass as maxRetries (0 is falsy and selects the default) and
\* as scheduledFor, relative to the time of the call: overdue, inside the
\* horizon, beyond the horizon.
MaxRetriesIn == {0, 1, 2}

SchedOffsets == {-1, 1, Horizon + 1}

VARIABLES
    now,                   \* Date.now(), in seconds
    events,                \* EventQueue.events: the Map, in insertion order
    loading,               \* the constructor's loadEvents() read, still in flight or done
    timers,                \* the live setTimeout timers of scheduleEvent
    scheduledTimers,       \* EventScheduler.scheduledTimers: the index of armed ids
    isRunning,
    isShuttingDown,
    fallbackCheckInterval, \* TRUE when the handle is not null
    liveIntervals,         \* the setInterval timers that were not cleared
    tasks,                 \* handlers suspended in a gateway call (a bag)
    calls,                 \* history: gateway calls started, per id
    addedHow,              \* history: how each id entered the store
    isDirty,               \* EventQueue.isDirty
    saveDebounceTimer,     \* TRUE while the debounce timer is live
    file,                  \* the primary file: absent, partial or complete with its data
    tmp,                   \* the file at persistencePath + ".tmp", likewise
    saves,                 \* the saveEvents() calls in progress
    proc,                  \* the process: its signal listeners, a graceful shutdown
                           \* under way, its exit code
    cron,                  \* the cron Scheduler: its task Map, its running flag, the
                           \* node-cron timers, and what its last calls did
    outcome                \* history: saves since the last mutation, an escaped error,
                           \* what cleanup() returned, shutdown() having returned

\* The scheduler and the store's Map.
schedVars == <<now, events, loading, timers, scheduledTimers, isRunning, isShuttingDown,
               fallbackCheckInterval, liveIntervals, tasks, calls, addedHow>>

\* The write side of persistence.
fileVars == <<isDirty, saveDebounceTimer, file, tmp, saves, outcome>>

vars == <<now, events, loading, timers, scheduledTimers, isRunning, isShuttingDown,
          fallbackCheckInterval, liveIntervals, tasks, calls, addedHow,
          isDirty, saveDebounceTimer, file, tmp, saves, proc, cron, outcome>>

\* ------------------------------------------------------------ the store
Max(a, b) == IF a >= b THEN a ELSE b

Has(ev, id) == \E i \in 1..Len(ev) : ev[i].id = id

Get(ev, id) == ev[CHOOSE i \in 1..Len(ev) : ev[i].id = id]

\* Map.set: an existing key keeps its place, a new key goes last.
MapSet(ev, rec) ==
    IF Has(ev, rec.id)
    THEN [i \in 1..Len(ev) |-> IF ev[i].id = rec.id THEN rec ELSE ev[i]]
    ELSE Append(ev, rec)

MapDelete(ev, id) == SelectSeq(ev, LAMBDA e : e.id /= id)

FullEvent(id, scheduledFor, maxRetries) ==
    [id |-> id, status |-> "pending", retryCount |-> 0,
     maxRetries |-> IF maxRetries = 0 THEN DefaultMaxRetries ELSE maxRetries,
     scheduledFor |-> scheduledFor, error |-> "none"]

QueueAdd(ev, id, scheduledFor, maxRetries) ==
    MapSet(ev, FullEvent(id, scheduledFor, maxRetries))

QueueRemove(ev, id) == MapDelete(ev, id)

MarkAsScheduled(ev, id) ==
    IF Has(ev, id) THEN MapSet(ev, [Get(ev, id) EXCEPT !.status = "scheduled"]) ELSE ev

MarkAsSent(ev, id) ==
    IF Has(ev, id) THEN MapSet(ev, [Get(ev, id) EXCEPT !.status = "sent"]) ELSE ev

MarkAsPending(ev, id) ==
    IF Has(ev, id) THEN MapSet(ev, [Get(ev, id) EXCEPT !.status = "pending"]) ELSE ev

Pow2(n) == 2 ^ n

\* The backoff without its cap.
BackoffUncapped(newRetryCount) == Pow2(newRetryCount)

Backoff(newRetryCount) ==
    IF Pow2(newRetryCount) <= BackoffCapSeconds
    THEN Pow2(newRetryCount) ELSE BackoffCapSeconds

\* The terminal test off by one: failed only after maxRetries + 1 failures.
MarkAsFailedOffByOne(ev, id, t, error) ==
    IF ~Has(ev, id) THEN ev
    ELSE LET event == Get(ev, id)
             newRetryCount == event.retryCount + 1
         IN  IF newRetryCount > event.maxRetries
             THEN MapSet(ev, [event EXCEPT !.status = "failed",
                                           !.retryCount = newRetryCount,
                                           !.error = error])
             ELSE MapSet(ev, [event EXCEPT !.status = "pending",
                                           !.retryCount = newRetryCount,
                                           !.scheduledFor = t + Backoff(newRetryCount),
                                           !.error = error])

MarkAsFailed(ev, id, t, error) ==
    IF ~Has(ev, id) THEN ev
    ELSE LET event == Get(ev, id)
             newRetryCount == event.retryCount + 1
         IN  IF newRetryCount >= event.maxRetries
             THEN MapSet(ev, [event EXCEPT !.status = "failed",
                                           !.retryCount = newRetryCount,
                                           !.error = error])
             ELSE MapSet(ev, [event EXCEPT !.status = "pending",
                                           !.retryCount = newRetryCount,
                                           !.scheduledFor = t + Backoff(newRetryCount),
                                           !.error = error])

\* Array.prototype.sort with (a, b) => a.scheduledFor - b.scheduledFor: stable.
RECURSIVE InsertSorted(_, _)
InsertSorted(s, e) ==
    IF s = << >> THEN <<e>>
    ELSE IF Head(s).scheduledFor <= e.scheduledFor
         THEN <<Head(s)>> \o InsertSorted(Tail(s), e)
         ELSE <<e>> \o s

RECURSIVE SortByScheduledFor(_, _)
SortByScheduledFor(acc, s) ==
    IF s = << >> THEN acc
    ELSE SortByScheduledFor(InsertSorted(acc, Head(s)), Tail(s))

\* query({status, beforeDate}), as the scheduler calls it.
Query(ev, statuses, beforeDate) ==
    SortByScheduledFor(<< >>,
        SelectSeq(ev, LAMBDA e : e.status \in statuses /\ e.scheduledFor <= beforeDate))

\* An EventFilter: each of its fields is given or not.
NotGiven == [given |-> FALSE, value |-> 0]

Given(v) == [given |-> TRUE, value |-> v]

NoFilter ==
    [status |-> NotGiven, pluginName |-> NotGiven, afterDate |-> NotGiven,
     beforeDate |-> NotGiven]

\* query(filter) with the beforeDate test strict.
QueryWithStrictBefore(ev, filter) ==
    LET r1 == IF filter.status.given
              THEN SelectSeq(ev, LAMBDA e : e.status \in filter.status.value) ELSE ev
        r2 == IF filter.pluginName.given
              THEN SelectSeq(r1, LAMBDA e : e.pluginName = filter.pluginName.value) ELSE r1
        r3 == IF filter.afterDate.given
              THEN SelectSeq(r2, LAMBDA e : e.scheduledFor >= filter.afterDate.value) ELSE r2
        r4 == IF filter.beforeDate.given
              THEN SelectSeq(r3, LAMBDA e : e.scheduledFor < filter.beforeDate.value) ELSE r3
    IN  SortByScheduledFor(<< >>, r4)

\* query(filter): the filters that are given, one after the other, then the
\* sort.  A single status is the array of that status.
QueryWith(ev, filter) ==
    LET r1 == IF filter.status.given
              THEN SelectSeq(ev, LAMBDA e : e.status \in filter.status.value) ELSE ev
        r2 == IF filter.pluginName.given
              THEN SelectSeq(r1, LAMBDA e : e.pluginName = filter.pluginName.value) ELSE r1
        r3 == IF filter.afterDate.given
              THEN SelectSeq(r2, LAMBDA e : e.scheduledFor >= filter.afterDate.value) ELSE r2
        r4 == IF filter.beforeDate.given
              THEN SelectSeq(r3, LAMBDA e : e.scheduledFor <= filter.beforeDate.value) ELSE r3
    IN  SortByScheduledFor(<< >>, r4)

\* What a handler keeps of an event object it was given: the fields it reads later.
Snap(e) == [id |-> e.id, scheduledFor |-> e.scheduledFor]

Snaps(s) == [i \in 1..Len(s) |-> Snap(s[i])]

\* ------------------------------------------------------- the scheduler
\* The scheduler's and the store's fields, as one value the handlers transform.
Machine ==
    [events |-> events, timers |-> timers, scheduledTimers |-> scheduledTimers,
     isRunning |-> isRunning, isShuttingDown |-> isShuttingDown,
     fallbackCheckInterval |-> fallbackCheckInterval,
     liveIntervals |-> liveIntervals, calls |-> calls, listeners |-> proc.listeners]

\* A handler suspended in notificationService.sendNotification(event): the
\* loop it runs in, the event being sent, the events its loop has still to visit
\* and (addEvent, addEvents) the horizonDate it computed before the loop.
NoTask == [kind |-> "none", id |-> 0, rest |-> << >>, hz |-> 0]

Task(kind, id, rest, hz) == [kind |-> kind, id |-> id, rest |-> rest, hz |-> hz]

\* scheduledTimers.has(id)
Armed(m, id) == \E x \in m.scheduledTimers : x.eventId = id

TimerEntry(e) == [eventId |-> e.id, scheduledFor |-> e.scheduledFor]

\* The shutdown test inverted.
SendNotificationInverted(m) == [m |-> m, send |-> m.isShuttingDown]

\* sendNotification without the shutdown test.
SendNotificationAlways(m) == [m |-> m, send |-> TRUE]

\* The head of sendNotification: nothing is sent once shutdown has begun.
SendNotification(m) == [m |-> m, send |-> ~m.isShuttingDown]

\* setTimeout, scheduledTimers.set, markAsScheduled
ArmTimer(m, e) ==
    [m EXCEPT !.timers = @ \cup {TimerEntry(e)},
              !.scheduledTimers = @ \cup {TimerEntry(e)},
              !.events = MarkAsScheduled(@, e.id)]

\* The overdue branch leaving the event to the reconciliation pass.
ScheduleEventWaits(m, e, t) ==
    LET delay == e.scheduledFor - t
    IN  IF Armed(m, e.id) \/ delay <= 0 \/ delay > Horizon THEN [m |-> m, send |-> FALSE]
        ELSE [m |-> ArmTimer(m, e), send |-> FALSE]

\* scheduleEvent(event) at time t; send says that it reached the gateway call.
ScheduleEvent(m, e, t) ==
    LET delay == e.scheduledFor - t
    IN  IF Armed(m, e.id) THEN [m |-> m, send |-> FALSE]
        ELSE IF delay <= 0 THEN SendNotification(m)
        ELSE IF delay > Horizon THEN [m |-> m, send |-> FALSE]
        ELSE [m |-> ArmTimer(m, e), send |-> FALSE]

\* checkForMissedEvents asking for pending events only.
MissedStatusesPendingOnly == {"pending"}

\* The statuses checkForMissedEvents and the two arming passes query.
MissedStatuses == {"pending", "scheduled"}

ArmableStatuses == {"pending"}

MissedEvents(ev, t) == Snaps(Query(ev, MissedStatuses, t))

ArmableEvents(ev, t) == Snaps(Query(ev, ArmableStatuses, t + Horizon))

StartFallbackCheck(m) ==
    [m EXCEPT !.fallbackCheckInterval = TRUE, !.liveIntervals = @ + 1]

Signals == {"SIGINT", "SIGTERM"}

\* process.once for both signals.  The model does not count the listeners of
\* a signal beyond the first: 1 stands for one or several.
SetupSignalHandlers(m) ==
    [m EXCEPT !.listeners = [s \in Signals |-> 1]]

\* One iteration of the loop a handler runs over its events.
LoopBody(m, kind, e, hz, t) ==
    CASE kind = "missed" ->
            IF ~Armed(m, e.id) THEN SendNotification(m) ELSE [m |-> m, send |-> FALSE]
      [] kind = "upcoming" ->
            IF ~Armed(m, e.id) THEN ScheduleEvent(m, e, t) ELSE [m |-> m, send |-> FALSE]
      [] kind \in {"addEvent", "addEvents"} ->
            IF e.scheduledFor <= hz /\ m.isRunning
            THEN ScheduleEvent(m, e, t) ELSE [m |-> m, send |-> FALSE]
      [] kind = "timer" ->
            SendNotification(
                [m EXCEPT !.scheduledTimers = {x \in @ : x.eventId /= e.id}])
      [] OTHER -> ScheduleEvent(m, e, t)

\* A handler runs its loop from `rest` on until a gateway call suspends it or
\* it ends: start() then starts the reconciliation interval, the reconciliation
\* callback goes from checkForMissedEvents on to scheduleUpcomingEvents.
RECURSIVE RunLoop(_, _, _, _, _)
RunLoop(m, kind, rest, hz, t) ==
    IF rest = << >>
    THEN CASE kind = "start" ->
                [m |-> SetupSignalHandlers(StartFallbackCheck(m)), task |-> NoTask]
           [] kind = "missed" -> RunLoop(m, "upcoming", ArmableEvents(m.events, t), 0, t)
           [] OTHER -> [m |-> m, task |-> NoTask]
    ELSE LET e == Head(rest)
             r == LoopBody(m, kind, e, hz, t)
         IN  IF r.send
             THEN [m |-> [r.m EXCEPT !.calls[e.id] = @ + 1],
                   task |-> Task(kind, e.id, Tail(rest), hz)]
             ELSE RunLoop(r.m, kind, Tail(rest), hz, t)

\* sendNotification after the gateway call returned `success`.  The re-arm
\* never takes scheduleEvent's overdue branch: the backoff is at least 2 s.
AfterGateway(m, id, success, t) ==
    IF success THEN [m EXCEPT !.events = MarkAsSent(@, id)]
    ELSE LET ev1 == MarkAsFailed(m.events, id, t, "failure")
             m1 == [m EXCEPT !.events = ev1]
         IN  IF Has(ev1, id) /\ Get(ev1, id).status = "pending"
             THEN ScheduleEvent(m1, Snap(Get(ev1, id)), t).m
             ELSE m1

\* The reconciliation callback: checkForMissedEvents, then
\* scheduleUpcomingEvents.
CheckForMissedEvents(m, t) == RunLoop(m, "missed", MissedEvents(m.events, t), 0, t)

\* The handler k runs on after its gateway call returned.
Resume(m, k, success, t) ==
    RunLoop(AfterGateway(m, k.id, success, t), k.kind, k.rest, k.hz, t)

InFlight(id) == {k \in BagToSet(tasks) : k.id = id}

NumInFlight(id) ==
    LET S == InFlight(id)
        RECURSIVE Sum(_)
        Sum(T) == IF T = {} THEN 0
                  ELSE LET k == CHOOSE x \in T : TRUE IN tasks[k] + Sum(T \ {k})
    IN  Sum(S)

TotalCalls ==
    LET RECURSIVE Sum(_)
        Sum(S) == IF S = {} THEN 0
                  ELSE LET id == CHOOSE x \in S : TRUE IN calls[id] + Sum(S \ {id})
    IN  Sum(Ids)

\* The new state after a handler ran: r its result, base the suspended handlers
\* it leaves behind.  The model follows at most MaxTasks suspended handlers and
\* MaxCalls gateway calls.
Becomes(r, base) ==
    /\ r.task /= NoTask =>
          /\ BagCardinality(base) < MaxTasks
          /\ TotalCalls < MaxCalls
    /\ events' = r.m.events
    /\ timers' = r.m.timers
    /\ scheduledTimers' = r.m.scheduledTimers
    /\ isRunning' = r.m.isRunning
    /\ isShuttingDown' = r.m.isShuttingDown
    /\ fallbackCheckInterval' = r.m.fallbackCheckInterval
    /\ liveIntervals' = r.m.liveIntervals
    /\ calls' = r.m.calls
    /\ proc' = [proc EXCEPT !.listeners = r.m.listeners]
    /\ cron' = cron
    /\ tasks' = IF r.task = NoTask THEN base ELSE base (+) SetToBag({r.task})

\* ------------------------------------------------------ serialization
\* add() and update() stamp updatedAt.
Stamped(rec, t) ==
    [f \in DOMAIN rec \cup {"updatedAt"} |-> IF f = "updatedAt" THEN t ELSE rec[f]]

Touch(ev, id, t) == IF Has(ev, id) THEN MapSet(ev, Stamped(Get(ev, id), t)) ELSE ev

DateFields == {"scheduledFor", "updatedAt"}

\* JSON.stringify writes a Date as its ISO string; the reviver of loadEvents
\* turns the ISO strings back into Dates.
ToJSON(rec) == [f \in DOMAIN rec |-> IF f \in DateFields THEN [iso |-> rec[f]] ELSE rec[f]]

Revive(obj) == [f \in DOMAIN obj |-> IF f \in DateFields THEN obj[f].iso ELSE obj[f]]

Serialize(ev) == [i \in 1..Len(ev) |-> ToJSON(ev[i])]

Deserialize(data) == [i \in 1..Len(data) |-> Revive(data[i])]

\* What loadEvents() would put into the Map from the primary file: nothing
\* when the file is absent (ENOENT), and a partially written file does not parse.
FileRecords(f) == IF f.state = "partial" THEN "unreadable" ELSE Deserialize(f.data)

\* The states of a file: not there, truncated or holding a part or a mix of
\* what is being written, or holding the data of one writeFile.
Absent == [state |-> "absent", data |-> << >>]

Partial == [state |-> "partial", data |-> << >>]

Complete(data) == [state |-> "complete", data |-> data]

\* ------------------------------------------------------------ the gateway
\* What the HTTP call of NotificationService.sendNotification ends with: a
\* response with a status, a timeout (ECONNABORTED) or no connection.
NoResponse == [kind |-> "none", status |-> 0]

StatusResponse(status) == [kind |-> "status", status |-> status]

Timeout == [kind |-> "timeout", status |-> 0]

NetworkError == [kind |-> "network", status |-> 0]

Statuses == {200, 404, 429, 500, 503}

Responses == {StatusResponse(s) : s \in Statuses} \cup {Timeout, NetworkError}

\* axios: validateStatus decides whether the response resolves or throws.
ValidateStatus(status) == status < 500

\* The 4xx test left out: every response that resolves counts as sent.
DeliveredAccepts4xx(r) == r.kind = "status" /\ ValidateStatus(r.status)

\* NotificationService.sendNotification: the boolean it returns; it throws
\* nothing, its catch returns false.
Delivered(r) ==
    IF r.kind = "status" /\ ValidateStatus(r.status)
    THEN ~(r.status >= 400)
    ELSE FALSE

\* ----------------------------------------------------------- the state
\* ------------------------------------------------- the cron Scheduler
\* Names, descriptions and cron expressions are sequences: of characters the
\* first two, of fields the last.
Whitespace == {" "}

ToLowerCase(ch) == IF ch = "A" THEN "a" ELSE IF ch = "B" THEN "b" ELSE ch

\* replace(/\s+/g, '-'): every run of whitespace becomes one dash.
RECURSIVE ReplaceWhitespace(_, _)
ReplaceWhitespace(str, inRun) ==
    IF str = << >> THEN << >>
    ELSE IF Head(str) \in Whitespace
         THEN (IF inRun THEN << >> ELSE <<"-">>) \o ReplaceWhitespace(Tail(str), TRUE)
         ELSE <<Head(str)>> \o ReplaceWhitespace(Tail(str), FALSE)

\* `${pluginName}-${description.replace(/\s+/g, '-').toLowerCase()}`
TaskName(pluginName, description) ==
    LET dashed == ReplaceWhitespace(description, FALSE)
    IN  pluginName \o <<"-">> \o [i \in 1..Len(dashed) |-> ToLowerCase(dashed[i])]

\* cron.validate: five fields, or six with the seconds, each of them well formed.
Validate(expression) ==
    /\ Len(expression) \in {5, 6}
    /\ \A i \in 1..Len(expression) : expression[i] \in {"*", "0", "*/5"}

\* How many firings the history keeps.
MaxJobs == 2

NoCall == [op |-> "none", name |-> << >>, returned |-> "none", plugins |-> << >>,
           before |-> << >>]

\* new Scheduler(...): an empty Map, not running.  `detached` are the live
\* node-cron timers that no record of the Map holds; `jobs` the last firings,
\* `last` the last call.
NewScheduler ==
    [scheduledTasks |-> << >>, running |-> FALSE, detached |-> << >>, jobs |-> << >>,
     last |-> NoCall]

\* scheduledTasks.has(name), and the position of the record.
HasTask(c, name) == \E i \in 1..Len(c.scheduledTasks) : c.scheduledTasks[i].name = name

TaskIndex(c, name) == CHOOSE i \in 1..Len(c.scheduledTasks) : c.scheduledTasks[i].name = name

\* cron.schedule(..., {scheduled: false}), the record, then task.start().
NewTask(taskName, pluginName, schedule) ==
    [name |-> taskName, expression |-> schedule.expression,
     description |-> schedule.description, task |-> [live |-> TRUE],
     pluginName |-> pluginName, paused |-> FALSE]

\* Map.set: a new key goes to the end, an existing key keeps its place and
\* loses its old value.
SetTask(c, rec) ==
    IF HasTask(c, rec.name)
    THEN LET i == TaskIndex(c, rec.name)
             old == c.scheduledTasks[i]
         IN  [c EXCEPT !.scheduledTasks[i] = rec,
                       !.detached = IF old.task.live THEN Append(@, old.name) ELSE @]
    ELSE [c EXCEPT !.scheduledTasks = Append(@, rec)]

\* scheduleTask without the has() test.
ScheduleTaskAgain(c, pluginName, schedule) ==
    LET taskName == TaskName(pluginName, schedule.description)
    IN  IF ~Validate(schedule.expression) THEN c
        ELSE SetTask(c, NewTask(taskName, pluginName, schedule))

\* scheduleTask: a name that is taken and an invalid expression are logged
\* and skipped.
ScheduleTask(c, pluginName, schedule) ==
    LET taskName == TaskName(pluginName, schedule.description)
    IN  IF HasTask(c, taskName) THEN c
        ELSE IF ~Validate(schedule.expression) THEN c
        ELSE SetTask(c, NewTask(taskName, pluginName, schedule))

\* The inner loop, leaving the plugin at its first invalid expression.
RECURSIVE ScheduleAllUntilInvalid(_, _, _)
ScheduleAllUntilInvalid(c, pluginName, schedules) ==
    IF schedules = << >> THEN c
    ELSE IF ~Head(schedules).enabled THEN ScheduleAllUntilInvalid(c, pluginName, Tail(schedules))
    ELSE IF ~Validate(Head(schedules).expression) THEN c
    ELSE ScheduleAllUntilInvalid(ScheduleTask(c, pluginName, Head(schedules)),
                                 pluginName, Tail(schedules))

\* The inner loop of schedulePluginTasks: the enabled schedules of one plugin.
RECURSIVE ScheduleAll(_, _, _)
ScheduleAll(c, pluginName, schedules) ==
    IF schedules = << >> THEN c
    ELSE IF ~Head(schedules).enabled THEN ScheduleAll(c, pluginName, Tail(schedules))
    ELSE ScheduleAll(ScheduleTask(c, pluginName, Head(schedules)), pluginName, Tail(schedules))

\* schedulePluginTasks: the enabled plugins in turn; a getSchedules() that
\* throws is caught and costs that plugin its tasks.
RECURSIVE SchedulePluginTasks(_, _)
SchedulePluginTasks(c, plugins) ==
    IF plugins = << >> THEN c
    ELSE LET plugin == Head(plugins)
         IN  SchedulePluginTasks(IF plugin.throws THEN c
                                 ELSE ScheduleAll(c, plugin.name, plugin.schedules),
                                 Tail(plugins))

\* Scheduler.start(): nothing in it awaits a timer or I/O, and its callers
\* await it, so it runs as one step.
StartScheduler(c, plugins) ==
    [SchedulePluginTasks(c, plugins) EXCEPT
        !.running = TRUE,
        !.last = [NoCall EXCEPT !.op = "start", !.returned = "resolved", !.plugins = plugins]]

\* stop() that clears the Map and leaves the timers alone.
StopSchedulerClearOnly(c) ==
    [c EXCEPT !.scheduledTasks = << >>,
              !.detached = @ \o [i \in 1..Len(SelectSeq(c.scheduledTasks, LAMBDA t : t.task.live))
                                   |-> SelectSeq(c.scheduledTasks, LAMBDA t : t.task.live)[i].name],
              !.running = FALSE,
              !.last = [NoCall EXCEPT !.op = "stop", !.returned = "resolved",
                                      !.before = c.scheduledTasks]]

\* Scheduler.stop(): task.stop() for every record, then clear().
StopScheduler(c) ==
    [c EXCEPT !.scheduledTasks = << >>,
              !.running = FALSE,
              !.last = [NoCall EXCEPT !.op = "stop", !.returned = "resolved",
                                      !.before = c.scheduledTasks]]

\* What a call returned.
Returned(b) == IF b THEN "true" ELSE "false"

\* resumeTask that clears the flag and does not start the timer.
ResumeTaskFlagOnly(c, name) ==
    IF ~HasTask(c, name) THEN [c |-> c, returned |-> FALSE]
    ELSE LET i == TaskIndex(c, name)
         IN  IF ~c.scheduledTasks[i].paused THEN [c |-> c, returned |-> FALSE]
             ELSE [c |-> [c EXCEPT !.scheduledTasks[i].paused = FALSE], returned |-> TRUE]

\* pauseTask: task.stop() and the flag.
PauseTask(c, name) ==
    IF ~HasTask(c, name) THEN [c |-> c, returned |-> FALSE]
    ELSE LET i == TaskIndex(c, name)
         IN  IF c.scheduledTasks[i].paused THEN [c |-> c, returned |-> FALSE]
             ELSE [c |-> [c EXCEPT !.scheduledTasks[i].task.live = FALSE,
                                   !.scheduledTasks[i].paused = TRUE],
                   returned |-> TRUE]

\* resumeTask: task.start() and the flag.
ResumeTask(c, name) ==
    IF ~HasTask(c, name) THEN [c |-> c, returned |-> FALSE]
    ELSE LET i == TaskIndex(c, name)
         IN  IF ~c.scheduledTasks[i].paused THEN [c |-> c, returned |-> FALSE]
             ELSE [c |-> [c EXCEPT !.scheduledTasks[i].task.live = TRUE,
                                   !.scheduledTasks[i].paused = FALSE],
                   returned |-> TRUE]

\* toggleTask
ToggleTask(c, name) ==
    IF ~HasTask(c, name) THEN [c |-> c, returned |-> FALSE]
    ELSE IF c.scheduledTasks[TaskIndex(c, name)].paused
         THEN ResumeTask(c, name) ELSE PauseTask(c, name)

\* removeScheduledTask: task.stop() and delete.
RemoveScheduledTask(c, name) ==
    IF ~HasTask(c, name) THEN [c |-> c, returned |-> FALSE]
    ELSE [c |-> [c EXCEPT !.scheduledTasks = SelectSeq(@, LAMBDA t : t.name /= name)],
          returned |-> TRUE]

\* What one firing meets: no notification, notifications that are all sent or
\* not all, a checkConditions or a sendBulkNotifications that throws, a plugin
\* that is gone.
Firings == {"nothing", "sent", "partly", "checkThrows", "sendThrows", "noPlugin"}

Throws == {"checkThrows", "sendThrows"}

\* The history with one more firing, the oldest dropped.
Job(c, name, how) ==
    LET all == Append(c.jobs, [name |-> name, job |-> how])
    IN  [c EXCEPT !.jobs = IF Len(all) > MaxJobs THEN Tail(all) ELSE all]

\* executePluginTask without its try: the error leaves the firing.
ExecutePluginTaskNoCatch(c, name, firing) ==
    IF firing = "noPlugin" THEN Job(c, name, "started")
    ELSE IF firing \in Throws THEN Job(c, name, "threw")
    ELSE Job(c, name, "completed")

\* executePluginTask: job:completed, or job:failed from the catch; a plugin
\* that is not found ends the firing after job:started.
ExecutePluginTask(c, name, firing) ==
    IF firing = "noPlugin" THEN Job(c, name, "started")
    ELSE IF firing \in Throws THEN Job(c, name, "failed")
    ELSE Job(c, name, "completed")

\* The names of the live timers, those of the Map first.
LiveTimers(c) ==
    LET held == SelectSeq(c.scheduledTasks, LAMBDA t : t.task.live)
    IN  [i \in 1..Len(held) |-> held[i].name] \o c.detached

\* The NotificationTracker of a plugin's NotificationScheduler, for the key of
\* one event: the sentNotifications Map (the times it holds for the key), and
\* how often shouldSendEventNotification has returned true, up to two.
NewTracker == [sentNotifications |-> {}, trues |-> 0]

\* NtfyFetchService with the event scheduler enabled: its isRunning, where its
\* stop() is suspended, whether its start() threw, the scheduledEventIds of the
\* tide plugin, and the ids that were pending or scheduled when stop() began.
NewService ==
    [isRunning |-> FALSE, at |-> "idle", threw |-> FALSE, scheduledEventIds |-> {},
     undelivered |-> {}]

\* A record as a previous run of the process left it in the file: pending, or
\* still scheduled because the process was killed while a timer was armed.
PersistedRecord(id, maxRetries) ==
    {[id |-> id, status |-> st, retryCount |-> 0, maxRetries |-> mr,
      scheduledFor |-> sf, error |-> "none"] :
        st \in {"pending", "scheduled"}, mr \in maxRetries, sf \in {0, 1}}

\* The files the process may find: none (ENOENT), or one holding a record.
PersistedFiles == {<< >>} \cup {<<r>> : r \in PersistedRecord(1, {1, DefaultMaxRetries})}

\* The process after construction, the scheduler not started: the store is
\* empty and its loadEvents() is reading one of `files`, or (loaded) that read
\* has completed.
InitFrom(f, loaded, disk) ==
    /\ now = 0
    /\ events = IF loaded THEN f ELSE << >>
    /\ loading = [pending |-> ~loaded, data |-> IF loaded THEN << >> ELSE f]
    /\ timers = {}
    /\ scheduledTimers = {}
    /\ isRunning = FALSE
    /\ isShuttingDown = FALSE
    /\ fallbackCheckInterval = FALSE
    /\ liveIntervals = 0
    /\ tasks = EmptyBag
    /\ calls = [id \in Ids |-> 0]
    /\ addedHow = [id \in Ids |-> IF Has(f, id) THEN "stored" ELSE "none"]
    /\ isDirty = FALSE
    /\ saveDebounceTimer = FALSE
    /\ file = disk
    /\ tmp = Absent
    /\ saves = << >>
    /\ proc = [listeners |-> [s \in Signals |-> 0], stopping |-> FALSE, exit |-> "none",
               service |-> NewService, tracker |-> NewTracker]
    /\ cron = NewScheduler
    /\ outcome = [sinceMutation |-> 0, escaped |-> FALSE, removedCount |-> 0,
                  response |-> NoResponse, threw |-> "none", loadError |-> FALSE,
                  closed |-> FALSE,
                  returned |-> [called |-> FALSE, filter |-> NoFilter, result |-> << >>]]

InitWith(files, loaded) ==
    \E f \in files :
        InitFrom(f, loaded, IF f = << >> THEN Absent ELSE Complete(Serialize(f)))

Init == InitWith(PersistedFiles, FALSE)

\* ---------------------------------------------------------- the actions
RECURSIVE SetAll(_, _)
SetAll(ev, data) ==
    IF data = << >> THEN ev ELSE SetAll(MapSet(ev, Head(data)), Tail(data))

\* loadEvents(), which the constructor starts and does not await, completes:
\* it sets the records it parsed; a file that does not parse makes JSON.parse
\* throw into the catch, which logs the error.
LoadEvents ==
    /\ loading.pending
    /\ events' = SetAll(events, loading.data)
    /\ loading' = [pending |-> FALSE, data |-> << >>]
    /\ outcome' = [outcome EXCEPT !.loadError = (file.state = "partial")]
    /\ UNCHANGED <<cron, proc, now, timers, scheduledTimers, isRunning, isShuttingDown,
                   fallbackCheckInterval, liveIntervals, tasks, calls, addedHow>>
    /\ UNCHANGED <<isDirty, saveDebounceTimer, file, tmp, saves>>

\* start(), up to the first gateway call of scheduleExistingEvents or its end.
Start ==
    /\ ~isRunning
    /\ LET m == [Machine EXCEPT !.isRunning = TRUE, !.isShuttingDown = FALSE]
       IN  Becomes(RunLoop(m, "start", ArmableEvents(m.events, now), 0, now), tasks)
    /\ UNCHANGED <<now, loading, addedHow>>
    /\ UNCHANGED fileVars

RECURSIVE RevertAll(_, _)
RevertAll(ev, S) ==
    IF S = {} THEN ev
    ELSE LET x == CHOOSE y \in S : TRUE
         IN  RevertAll(MarkAsPending(ev, x.eventId), S \ {x})

\* stop() on a running scheduler: the scheduler it leaves.
StopIn(m) ==
    [m EXCEPT !.isRunning = FALSE,
              !.isShuttingDown = TRUE,
              !.fallbackCheckInterval = FALSE,
              !.liveIntervals = IF m.fallbackCheckInterval THEN @ - 1 ELSE @,
              !.timers = @ \ m.scheduledTimers,
              !.events = RevertAll(@, m.scheduledTimers),
              !.scheduledTimers = {}]

\* stop(): the interval and every indexed timer are cleared, the indexed ids
\* go back to pending.
Stop ==
    /\ isRunning
    /\ isRunning' = StopIn(Machine).isRunning
    /\ isShuttingDown' = StopIn(Machine).isShuttingDown
    /\ fallbackCheckInterval' = StopIn(Machine).fallbackCheckInterval
    /\ liveIntervals' = StopIn(Machine).liveIntervals
    /\ timers' = StopIn(Machine).timers
    /\ events' = StopIn(Machine).events
    /\ scheduledTimers' = StopIn(Machine).scheduledTimers
    /\ UNCHANGED <<cron, proc, now, loading, tasks, calls, addedHow>>
    /\ UNCHANGED fileVars

\* The reconciliation callback of setInterval; it returns at once unless the
\* scheduler is running.
FallbackCheck ==
    /\ liveIntervals > 0
    /\ isRunning /\ ~isShuttingDown
    /\ Becomes(CheckForMissedEvents(Machine, now), tasks)
    /\ UNCHANGED <<now, loading, addedHow>>
    /\ UNCHANGED fileVars

\* The callback of an armed timer.  Timers fire in the order of their due
\* times; one that is not due yet fires after the time up to it has passed.
TimerFires(x) ==
    /\ x \in timers
    /\ \A y \in timers : y.scheduledFor >= x.scheduledFor
    /\ now' = Max(now, x.scheduledFor)
    /\ LET m == [Machine EXCEPT !.timers = @ \ {x}]
           e == [id |-> x.eventId, scheduledFor |-> x.scheduledFor]
       IN  Becomes(RunLoop(m, "timer", <<e>>, 0, now'), tasks)
    /\ UNCHANGED <<loading, addedHow>>
    /\ UNCHANGED fileVars

\* The gateway call of a suspended handler returns; the handler runs on.
GatewayReturns(k, success) ==
    /\ k \in BagToSet(tasks)
    /\ Becomes(Resume(Machine, k, success, now), tasks (-) SetToBag({k}))
    /\ UNCHANGED <<now, loading, addedHow>>
    /\ UNCHANGED fileVars

\* The gateway call of a suspended handler ends with the response r.
GatewayResponds(k, r) ==
    /\ k \in BagToSet(tasks)
    /\ Becomes(Resume(Machine, k, Delivered(r), now), tasks (-) SetToBag({k}))
    /\ outcome' = [outcome EXCEPT !.response = r]
    /\ UNCHANGED <<now, loading, addedHow>>
    /\ UNCHANGED <<isDirty, saveDebounceTimer, file, tmp, saves>>

\* armed: a running scheduler was given the event with 0 < delay <= horizon.
How(m, off) ==
    IF m.isRunning /\ 0 < off /\ off <= Horizon THEN "armed" ELSE "stored"

\* addEvent(event) with an id that was not used before.
AddEvent(id, off, mr) ==
    /\ addedHow[id] = "none"
    /\ LET m == [Machine EXCEPT !.events = QueueAdd(@, id, now + off, mr)]
           e == Snap(Get(m.events, id))
       IN  Becomes(RunLoop(m, "addEvent", <<e>>, now + Horizon, now), tasks)
    /\ addedHow' = [addedHow EXCEPT ![id] = How(Machine, off)]
    /\ UNCHANGED <<now, loading>>
    /\ UNCHANGED fileVars

\* addEvent(event) with the id of a record the store holds; addedHow keeps how
\* the id was added first.
AddEventAgain(id, off, mr) ==
    /\ Has(events, id)
    /\ LET m == [Machine EXCEPT !.events = QueueAdd(@, id, now + off, mr)]
           e == Snap(Get(m.events, id))
       IN  Becomes(RunLoop(m, "addEvent", <<e>>, now + Horizon, now), tasks)
    /\ UNCHANGED <<now, loading, addedHow>>
    /\ UNCHANGED fileVars

RECURSIVE AddBatch(_, _, _)
AddBatch(ev, batch, t) ==
    IF batch = << >> THEN ev
    ELSE AddBatch(QueueAdd(ev, Head(batch).id, t + Head(batch).off, Head(batch).mr),
                  Tail(batch), t)

BatchItems(ids, offs, mrs) ==
    {[id |-> a, off |-> o, mr |-> r] : a \in ids, o \in offs, r \in mrs}

\* The batches of one or two new events.
Batches(ids, offs, mrs) ==
    {<<x>> : x \in BatchItems(ids, offs, mrs)}
    \cup {b \in BatchItems(ids, offs, mrs) \X BatchItems(ids, offs, mrs) :
             b[1].id /= b[2].id}

\* addEvents(events) with ids that were not used before.
AddEvents(batch) ==
    /\ \A i \in 1..Len(batch) : addedHow[batch[i].id] = "none"
    /\ LET m == [Machine EXCEPT !.events = AddBatch(@, batch, now)]
           added == [i \in 1..Len(batch) |-> Snap(Get(m.events, batch[i].id))]
       IN  Becomes(RunLoop(m, "addEvents", added, now + Horizon, now), tasks)
    /\ addedHow' = [id \in Ids |->
                      IF \E i \in 1..Len(batch) : batch[i].id = id
                      THEN How(Machine, (CHOOSE x \in {batch[i] : i \in 1..Len(batch)} :
                                            x.id = id).off)
                      ELSE addedHow[id]]
    /\ UNCHANGED <<now, loading>>
    /\ UNCHANGED fileVars

\* cancelEvent that deletes the index entry and leaves the timer running.
CancelEventInNoClear(m, id) ==
    [m |-> [m EXCEPT !.scheduledTimers = {x \in @ : x.eventId /= id},
                     !.events = QueueRemove(@, id)],
     existed |-> Has(m.events, id)]

\* cancelEvent(eventId): the scheduler it leaves and the value it returns.
CancelEventIn(m, id) ==
    [m |-> [m EXCEPT !.timers = @ \ {x \in m.scheduledTimers : x.eventId = id},
                     !.scheduledTimers = {x \in @ : x.eventId /= id},
                     !.events = QueueRemove(@, id)],
     existed |-> Has(m.events, id)]

\* cancelEvent(eventId)
CancelEvent(id) ==
    /\ Has(events, id) \/ Armed(Machine, id)
    /\ timers' = CancelEventIn(Machine, id).m.timers
    /\ scheduledTimers' = CancelEventIn(Machine, id).m.scheduledTimers
    /\ events' = CancelEventIn(Machine, id).m.events
    /\ UNCHANGED <<cron, proc, now, loading, isRunning, isShuttingDown, fallbackCheckInterval,
                   liveIntervals, tasks, calls, addedHow>>
    /\ UNCHANGED fileVars

\* A second passes; a timer that is due fires first.
Advance ==
    /\ now < MaxTime
    /\ \A x \in timers : x.scheduledFor > now
    /\ now' = now + 1
    /\ UNCHANGED <<cron, proc, events, loading, timers, scheduledTimers, isRunning, isShuttingDown,
                   fallbackCheckInterval, liveIntervals, tasks, calls, addedHow>>
    /\ UNCHANGED fileVars

\* ------------------------------------------------- the store's file side
\* The age test without the status test.
ShouldRemoveAnyStatus(event, t) == event.updatedAt < t - Retention

\* cleanup(): the records it keeps, at time t.
ShouldRemove(event, t) ==
    event.status \in {"sent", "failed"} /\ event.updatedAt < t - Retention

Cleanup(ev, t) == SelectSeq(ev, LAMBDA event : ~ShouldRemove(event, t))

\* A saveEvents() call in progress: who called it, the data it serialized on
\* entry, how far it is (mkdir, writing into the temp file, written) and where
\* the file it opened is now (tmp, renamed to the primary file, or unlinked).
Save(origin, ev) ==
    [origin |-> origin, data |-> Serialize(ev), stage |-> "mkdir", at |-> "none"]

RemoveAt(seq, i) == [j \in 1..(Len(seq) - 1) |-> IF j < i THEN seq[j] ELSE seq[j + 1]]

\* The scheduler's fields, which the store does not touch.
idle == <<loading, timers, scheduledTimers, isRunning, isShuttingDown,
          fallbackCheckInterval, liveIntervals, tasks, calls, addedHow, proc, cron>>

\* The process is up: no error has escaped a timer callback.
Up == ~outcome.escaped

\* A mutation of the Map followed by scheduleSave().
Mutate(ev) ==
    /\ Up
    /\ events' = ev
    /\ isDirty' = TRUE
    /\ saveDebounceTimer' = TRUE
    /\ outcome' = [outcome EXCEPT !.sinceMutation = 0]
    /\ UNCHANGED <<now, file, tmp, saves, idle>>

\* saveEvents() is entered: the Map ev is serialized at once.
StartSave(origin, ev) ==
    /\ Len(saves) < MaxSaves
    /\ saves' = Append(saves, Save(origin, ev))
    /\ outcome' = [outcome EXCEPT !.sinceMutation = IF @ < MaxSaves THEN @ + 1 ELSE @]

StoreAdd(id, off, mr) == Mutate(Touch(QueueAdd(events, id, now + off, mr), id, now))

RECURSIVE TouchAll(_, _, _)
TouchAll(ev, batch, t) ==
    IF batch = << >> THEN ev ELSE TouchAll(Touch(ev, Head(batch).id, t), Tail(batch), t)

StoreAddBatch(batch) == Mutate(TouchAll(AddBatch(events, batch, now), batch, now))

StoreMarkAsScheduled(id) ==
    /\ Has(events, id)
    /\ Mutate(Touch(MarkAsScheduled(events, id), id, now))

StoreMarkAsSent(id) ==
    /\ Has(events, id)
    /\ Mutate(Touch(MarkAsSent(events, id), id, now))

\* The model stops counting failures at maxRetries.
StoreMarkAsFailed(id) ==
    /\ Has(events, id)
    /\ Get(events, id).retryCount < Get(events, id).maxRetries
    /\ Mutate(Touch(MarkAsFailed(events, id, now, "failure"), id, now))

StoreRemove(id) ==
    /\ Has(events, id)
    /\ Mutate(QueueRemove(events, id))

\* cleanup(), from its interval or called directly; it schedules a save only
\* when it removed something.
StoreCleanup ==
    /\ Up
    /\ LET kept == Cleanup(events, now)
           removedCount == Len(events) - Len(kept)
       IN  /\ events' = kept
           /\ isDirty' = (isDirty \/ removedCount > 0)
           /\ saveDebounceTimer' = (saveDebounceTimer \/ removedCount > 0)
           /\ outcome' = [outcome EXCEPT
                              !.removedCount = removedCount,
                              !.sinceMutation = IF removedCount > 0 THEN 0 ELSE @]
    /\ UNCHANGED <<now, file, tmp, saves, idle>>

\* The callback of the setInterval that the constructor arms; the handle is
\* not kept and nothing clears it.
CleanupIntervalFires == StoreCleanup

\* The other saves after save i renamed the temp file onto the primary file:
\* a file that was the primary one is unlinked, the temp file is the primary one.
Renamed(seq, i) ==
    LET moved == [j \in 1..Len(seq) |->
                     [seq[j] EXCEPT !.at = CASE @ = "file" -> "gone"
                                             [] @ = "tmp" -> "file"
                                             [] OTHER -> @]]
    IN  RemoveAt(moved, i)

\* The callback of the debounce timer: it saves if the store is dirty.
SaveTimerFires ==
    /\ Up
    /\ saveDebounceTimer
    /\ saveDebounceTimer' = FALSE
    /\ IF isDirty THEN StartSave("timer", events)
       ELSE UNCHANGED <<saves, outcome>>
    /\ UNCHANGED <<now, events, isDirty, file, tmp, idle>>

\* shutdown(), up to its saveEvents() or, the store being clean, to its end.
Shutdown ==
    /\ Up
    /\ saveDebounceTimer' = FALSE
    /\ IF isDirty THEN StartSave("shutdown", events)
       ELSE /\ outcome' = [outcome EXCEPT !.closed = TRUE]
            /\ UNCHANGED saves
    /\ UNCHANGED <<now, events, isDirty, file, tmp, idle>>

\* clear(), up to its saveEvents().
Clear ==
    /\ Up
    /\ events' = << >>
    /\ StartSave("clear", << >>)
    /\ UNCHANGED <<now, isDirty, saveDebounceTimer, file, tmp, idle>>

\* fs.writeFile(tempPath) opens the temp file: it is created or truncated.
SaveOpens(i) ==
    /\ Up
    /\ i \in 1..Len(saves)
    /\ saves[i].stage = "mkdir"
    /\ saves' = [saves EXCEPT ![i].stage = "writing", ![i].at = "tmp"]
    /\ tmp' = Partial
    /\ UNCHANGED <<now, events, isDirty, saveDebounceTimer, file, outcome, idle>>

\* fs.writeFile has written its data.  The file holds them, unless another
\* save is writing into the same file, when it may hold a mix.
SaveWrites(i) ==
    /\ Up
    /\ i \in 1..Len(saves)
    /\ saves[i].stage = "writing"
    /\ saves' = [saves EXCEPT ![i].stage = "written"]
    /\ \E content \in {Complete(saves[i].data)} \cup
                      IF \E j \in 1..Len(saves) :
                            j /= i /\ saves[j].stage = "writing" /\ saves[j].at = saves[i].at
                      THEN {Partial} ELSE {} :
           /\ tmp' = IF saves[i].at = "tmp" THEN content ELSE tmp
           /\ file' = IF saves[i].at = "file" THEN content ELSE file
    /\ UNCHANGED <<now, events, isDirty, saveDebounceTimer, outcome, idle>>

\* saveEvents() throws: into the debounce timer's callback, which nothing
\* awaits (the rejection ends the process), or to the caller of shutdown().
Thrown(i) == [outcome EXCEPT !.escaped = (saves[i].origin = "timer"),
                             !.threw = saves[i].origin]

\* fs.rename(tempPath, persistencePath); it fails when another save has
\* renamed the temp file away.
SaveRenames(i) ==
    /\ Up
    /\ i \in 1..Len(saves)
    /\ saves[i].stage = "written"
    /\ IF tmp = Absent
       THEN /\ saves' = RemoveAt(saves, i)
            /\ outcome' = Thrown(i)
            /\ UNCHANGED <<file, tmp, isDirty>>
       ELSE /\ file' = tmp
            /\ tmp' = Absent
            /\ saves' = Renamed(saves, i)
            /\ isDirty' = FALSE
            /\ outcome' = [outcome EXCEPT !.closed = @ \/ saves[i].origin = "shutdown"]
    /\ UNCHANGED <<now, events, saveDebounceTimer, idle>>

\* mkdir, writeFile or rename fails (no space, no permission).
SaveFails(i) ==
    /\ Up
    /\ i \in 1..Len(saves)
    /\ saves' = RemoveAt(saves, i)
    /\ outcome' = Thrown(i)
    /\ UNCHANGED <<now, events, isDirty, saveDebounceTimer, file, tmp, idle>>

\* Time passes: a second, or the retention window.  The model follows the
\* first MaxTime seconds and the MaxTime seconds after the window.
StoreAdvance(d) ==
    /\ Up
    /\ now + d <= MaxTime + Retention
    /\ (now + d) % Retention <= MaxTime
    /\ now' = now + d
    /\ UNCHANGED <<events, fileVars, idle>>

\* query(filter) is called; the model keeps what it returned.
QueryCall(filter) ==
    /\ outcome' = [outcome EXCEPT !.returned = [called |-> TRUE, filter |-> filter,
                                                result |-> QueryWith(events, filter)]]
    /\ UNCHANGED <<now, events, isDirty, saveDebounceTimer, file, tmp, saves, idle>>

\* ---------------------------------------------------- the process signals
\* The process has not exited.
Alive == proc.exit = "none"

\* The exit code after `await this.stop()`: the catch branch exits with 1.
ExitCode(threw) == IF threw THEN "1" ELSE "0"

\* SIGINT or SIGTERM arrives.  Without a listener the process is killed by the
\* signal.  Otherwise gracefulShutdown runs for every listener (one or
\* `several`): it sets its timeout and calls stop(), which on a running
\* scheduler clears the timers, marks their events pending (update(), so the
\* store is dirty) and calls the store's shutdown(); a stop() that has no
\* flush to await, or that finds the scheduler stopped, returns at once and
\* process.exit(0) follows.
Signal(sig, several) ==
    /\ Alive
    /\ IF proc.listeners[sig] = 0
       THEN /\ proc' = [proc EXCEPT !.exit = "killed"]
            /\ UNCHANGED <<events, timers, scheduledTimers, isRunning, isShuttingDown,
                           fallbackCheckInterval, liveIntervals, isDirty,
                           saveDebounceTimer, saves, outcome>>
       ELSE LET m == IF isRunning THEN StopIn(Machine) ELSE Machine
                dirty == \/ isDirty
                         \/ isRunning /\ \E x \in scheduledTimers : Has(events, x.eventId)
                atOnce == ~isRunning \/ several \/ ~dirty
            IN  /\ events' = m.events
                /\ timers' = m.timers
                /\ scheduledTimers' = m.scheduledTimers
                /\ isRunning' = m.isRunning
                /\ isShuttingDown' = m.isShuttingDown
                /\ fallbackCheckInterval' = m.fallbackCheckInterval
                /\ liveIntervals' = m.liveIntervals
                /\ isDirty' = dirty
                /\ saveDebounceTimer' = (saveDebounceTimer /\ ~isRunning)
                /\ IF atOnce
                   THEN /\ proc' = [proc EXCEPT !.listeners[sig] = 0, !.exit = ExitCode(FALSE)]
                        /\ UNCHANGED <<saves, outcome>>
                   ELSE /\ proc' = [proc EXCEPT !.listeners[sig] = 0, !.stopping = TRUE]
                        /\ StartSave("shutdown", m.events)
    /\ UNCHANGED <<now, loading, tasks, calls, addedHow, file, tmp, cron>>

\* The saveEvents() of the stop() that gracefulShutdown awaits is over.
FlushOver == \A i \in 1..Len(saves) : saves[i].origin /= "shutdown"

\* `await this.stop()` resumes: clearTimeout, then process.exit(0), or
\* process.exit(1) in the catch branch.
StopReturns ==
    /\ Alive
    /\ proc.stopping
    /\ FlushOver
    /\ proc' = [proc EXCEPT !.exit = ExitCode(outcome.threw = "shutdown")]
    /\ UNCHANGED <<now, events, fileVars, loading, timers, scheduledTimers, isRunning,
                   isShuttingDown, fallbackCheckInterval, liveIntervals, tasks, calls,
                   addedHow, cron>>

\* The shutdown timeout fires before stop() has returned: process.exit(1).
ShutdownTimeoutFires ==
    /\ Alive
    /\ proc.stopping
    /\ proc' = [proc EXCEPT !.exit = "1"]
    /\ UNCHANGED <<now, events, fileVars, loading, timers, scheduledTimers, isRunning,
                   isShuttingDown, fallbackCheckInterval, liveIntervals, tasks, calls,
                   addedHow, cron>>

\* ------------------------------------------------- the cron Scheduler's calls
CronBecomes(c) ==
    /\ cron' = c
    /\ UNCHANGED <<schedVars, fileVars, proc>>

\* start() with the plugins that getEnabledPlugins() returns.
CronStart(plugins) == CronBecomes(StartScheduler(cron, plugins))

CronStop == CronBecomes(StopScheduler(cron))

CronCalls(op, name, r) ==
    CronBecomes([r.c EXCEPT !.last = [NoCall EXCEPT !.op = op, !.name = name,
                                                     !.returned = Returned(r.returned)]])

CronPause(name) == CronCalls("pauseTask", name, PauseTask(cron, name))

CronResume(name) == CronCalls("resumeTask", name, ResumeTask(cron, name))

CronToggle(name) == CronCalls("toggleTask", name, ToggleTask(cron, name))

CronRemove(name) == CronCalls("removeScheduledTask", name, RemoveScheduledTask(cron, name))

\* A live node-cron timer fires its callback, which runs executePluginTask.
CronFires(i, firing) ==
    /\ i \in 1..Len(LiveTimers(cron))
    /\ LET name == LiveTimers(cron)[i]
       IN  CronBecomes([ExecutePluginTask(cron, name, firing) EXCEPT
                           !.last = [NoCall EXCEPT !.op = "fire", !.name = name,
                                                   !.returned = firing]])

\* -------------------------------------------------- NotificationScheduler
\* new NotificationScheduler('tide', 24) and the window the tide plugin passes.
TrackerCleanupHours == 24

EventWindowMinutes == 2

CleanupIntervalSeconds == TrackerCleanupHours * 60 * 60

\* The time of the event the model follows, in seconds, and the last second
\* of each day up to which it follows the clock.
EventTime == 180

MaxClock == 420

Magnitude(n) == IF n < 0 THEN 0 - n ELSE n

\* Math.floor(diff / 60000), the times being in seconds.
MinutesUntil(targetTime, t) == (targetTime - t) \div 60

IsEventTime(eventTime, windowMinutes, t) ==
    Magnitude(MinutesUntil(eventTime, t)) <= windowMinutes

\* cleanup() that removes every record older than the call.
TrackerCleanupKeepsNone(sent, t) == {x \in sent : ~(x < t)}

\* NotificationTracker.cleanup(now): the records it keeps.
TrackerCleanup(sent, t) == {x \in sent : ~(x < t - CleanupIntervalSeconds)}

\* shouldSendEventNotification(eventId, eventTime, windowMinutes) at time t:
\* the Map it leaves and what it returns.
ShouldSendEventNotification(sent, eventTime, windowMinutes, t) ==
    IF sent /= {} THEN [sent |-> sent, returned |-> FALSE]
    ELSE IF IsEventTime(eventTime, windowMinutes, t) THEN [sent |-> {t}, returned |-> TRUE]
    ELSE [sent |-> sent, returned |-> FALSE]

TrackerIdle ==
    <<events, fileVars, loading, timers, scheduledTimers, isRunning, isShuttingDown,
      fallbackCheckInterval, liveIntervals, tasks, calls, addedHow, cron>>

\* The plugin asks whether to notify of the event.
TrackerAsks ==
    /\ LET r == ShouldSendEventNotification(proc.tracker.sentNotifications, EventTime,
                                            EventWindowMinutes, now)
       IN  proc' = [proc EXCEPT
                       !.tracker.sentNotifications = r.sent,
                       !.tracker.trues = IF r.returned /\ @ < 2 THEN @ + 1 ELSE @]
    /\ UNCHANGED now
    /\ UNCHANGED TrackerIdle

\* NotificationScheduler.cleanup()
TrackerCleans ==
    /\ proc' = [proc EXCEPT !.tracker.sentNotifications = TrackerCleanup(@, now)]
    /\ UNCHANGED now
    /\ UNCHANGED TrackerIdle

\* The clock moves on by d seconds; the model follows the first MaxClock
\* seconds of a day and of the next.
TrackerAdvance(d) ==
    /\ now + d <= CleanupIntervalSeconds + MaxClock
    /\ (now + d) % CleanupIntervalSeconds <= MaxClock
    /\ now' = now + d
    /\ UNCHANGED proc
    /\ UNCHANGED TrackerIdle

\* ------------------------------------------------------ NtfyFetchService
Service == proc.service

\* The fields of the event scheduler become those of m.
SchedulerBecomes(m) ==
    /\ events' = m.events
    /\ timers' = m.timers
    /\ scheduledTimers' = m.scheduledTimers
    /\ isRunning' = m.isRunning
    /\ isShuttingDown' = m.isShuttingDown
    /\ fallbackCheckInterval' = m.fallbackCheckInterval
    /\ liveIntervals' = m.liveIntervals

\* cancelPreviouslyScheduledEvents: cancelEvent for every id of the set.
RECURSIVE CancelAll(_, _)
CancelAll(m, ids) ==
    IF ids = {} THEN m
    ELSE LET id == CHOOSE x \in ids : TRUE
         IN  CancelAll(CancelEventIn(m, id).m, ids \ {id})

\* start() of a service that is not running.  The tide plugin is given the
\* event scheduler and adds the events of `batch` (all of them ahead and
\* inside the horizon, so that no gateway call suspends start()), the event
\* scheduler starts and arms them, the cron scheduler schedules the tasks of
\* `plugins` and, when `fails`, throws from the emit that ends its start().
\* The catch calls stop(), which returns at once unless isRunning is set, and
\* isRunning is set after the cron scheduler has started.
ServiceStart(batch, plugins, fails) ==
    /\ ~Service.isRunning /\ Service.at = "idle" /\ ~Service.threw
    /\ ~isRunning
    /\ LET m == [Machine EXCEPT !.events = AddBatch(@, batch, now),
                                !.isRunning = TRUE,
                                !.isShuttingDown = FALSE]
           r == RunLoop(m, "start", ArmableEvents(m.events, now), 0, now)
           stops == fails /\ Service.isRunning
       IN  /\ r.task = NoTask
           /\ SchedulerBecomes(IF stops THEN StopIn(r.m) ELSE r.m)
           /\ cron' = IF stops THEN StopScheduler(StartScheduler(cron, plugins))
                      ELSE StartScheduler(cron, plugins)
           /\ proc' = [proc EXCEPT
                          !.listeners = r.m.listeners,
                          !.service = [@ EXCEPT
                              !.isRunning = ~fails,
                              !.threw = fails,
                              !.scheduledEventIds = {batch[i].id : i \in 1..Len(batch)}]]
    /\ isDirty' = TRUE
    /\ saveDebounceTimer' = TRUE
    /\ outcome' = [outcome EXCEPT !.sinceMutation = 0]
    /\ UNCHANGED <<now, loading, tasks, calls, addedHow, file, tmp, saves>>

\* The ids of the events that are pending or scheduled.
Undelivered(ev) ==
    {ev[i].id : i \in {j \in 1..Len(ev) : ev[j].status \in {"pending", "scheduled"}}}

\* stop() of a running service, up to the flush of eventScheduler.stop(): the
\* cron scheduler stops, the event scheduler clears its timers and marks their
\* events pending, and the store's shutdown() flushes them.
ServiceStop ==
    /\ Service.isRunning /\ Service.at = "idle"
    /\ LET m == IF isRunning THEN StopIn(Machine) ELSE Machine
           dirty == isDirty \/ (isRunning /\ \E x \in scheduledTimers : Has(events, x.eventId))
       IN  /\ SchedulerBecomes(m)
           /\ isDirty' = dirty
           /\ saveDebounceTimer' = (saveDebounceTimer /\ ~isRunning)
           /\ IF isRunning /\ dirty THEN StartSave("shutdown", m.events)
              ELSE UNCHANGED <<saves, outcome>>
    /\ cron' = StopScheduler(cron)
    /\ proc' = [proc EXCEPT !.service = [@ EXCEPT !.at = "eventScheduler.stop",
                                                  !.undelivered = Undelivered(events)]]
    /\ UNCHANGED <<now, loading, tasks, calls, addedHow, file, tmp>>

\* stop() runs on after eventScheduler.stop(): cleanupPlugins() has the tide
\* plugin cancel the events it scheduled, and the store's shutdown() flushes
\* what that removed; with nothing to flush stop() returns.
ServiceStopCleans ==
    /\ Service.at = "eventScheduler.stop"
    /\ FlushOver /\ outcome.threw /= "shutdown"
    /\ LET m == CancelAll(Machine, Service.scheduledEventIds)
           dirty == isDirty \/ \E id \in Service.scheduledEventIds : Has(events, id)
       IN  /\ SchedulerBecomes(m)
           /\ isDirty' = dirty
           /\ saveDebounceTimer' = FALSE
           /\ IF dirty
              THEN /\ StartSave("shutdown", m.events)
                   /\ proc' = [proc EXCEPT !.service = [@ EXCEPT
                                  !.at = "eventQueue.shutdown", !.scheduledEventIds = {}]]
              ELSE /\ UNCHANGED <<saves, outcome>>
                   /\ proc' = [proc EXCEPT !.service = [@ EXCEPT
                                  !.at = "idle", !.isRunning = FALSE,
                                  !.scheduledEventIds = {}]]
    /\ UNCHANGED <<now, loading, tasks, calls, addedHow, file, tmp, cron>>

\* stop() returns after the flush of eventQueue.shutdown().
ServiceStopReturns ==
    /\ Service.at = "eventQueue.shutdown"
    /\ FlushOver /\ outcome.threw /= "shutdown"
    /\ proc' = [proc EXCEPT !.service = [@ EXCEPT !.at = "idle", !.isRunning = FALSE]]
    /\ UNCHANGED <<now, events, fileVars, loading, timers, scheduledTimers, isRunning,
                   isShuttingDown, fallbackCheckInterval, liveIntervals, tasks, calls,
                   addedHow, cron>>

\* A flush that stop() awaited threw: stop() logs and throws, isRunning stays.
ServiceStopThrows ==
    /\ Service.at \in {"eventScheduler.stop", "eventQueue.shutdown"}
    /\ FlushOver /\ outcome.threw = "shutdown"
    /\ proc' = [proc EXCEPT !.service = [@ EXCEPT !.at = "threw"]]
    /\ UNCHANGED <<now, events, fileVars, loading, timers, scheduledTimers, isRunning,
                   isShuttingDown, fallbackCheckInterval, liveIntervals, tasks, calls,
                   addedHow, cron>>

\* ----------------------------------------------------- the specifications
\* What the process does by itself: timers, reconciliation, gateway returns
\* with the outcomes `outcomes`, the passing of time.
Runs(outcomes) ==
    \/ FallbackCheck
    \/ \E x \in timers : TimerFires(x)
    \/ \E k \in BagToSet(tasks), success \in outcomes : GatewayReturns(k, success)
    \/ Advance

\* What the callers do with the events `ids`.
Calls(ids, offs, mrs) ==
    \/ Stop
    \/ \E id \in ids, off \in offs, mr \in mrs : AddEvent(id, off, mr)
    \/ \E batch \in Batches(ids, offs, mrs) : AddEvents(batch)
    \/ \E id \in ids : CancelEvent(id)

\* One event, every input, every interleaving.
Next == LoadEvents \/ Runs(BOOLEAN) \/ Start \/ Calls({1}, SchedOffsets, MaxRetriesIn)

Spec == Init /\ [][Next]_vars

\* The same with a gateway that fails every call, and with one that succeeds
\* every call.
NextFail == LoadEvents \/ Runs({FALSE}) \/ Start \/ Calls({1}, SchedOffsets, MaxRetriesIn)

SpecFail == Init /\ [][NextFail]_vars

NextOk == LoadEvents \/ Runs({TRUE}) \/ Start \/ Calls({1}, SchedOffsets, MaxRetriesIn)

SpecOk == Init /\ [][NextOk]_vars

\* Two events, so that the loops of start() and of the reconciliation pass
\* have an event left to visit while they are suspended: the store was loaded
\* from a file with two records; the callers start, stop and cancel.
PairFiles == {<<r, q>> : r \in PersistedRecord(1, {1, 2}), q \in PersistedRecord(2, {1})}

InitPair == InitWith(PairFiles, TRUE)

NextPair ==
    \/ Runs(BOOLEAN)
    \/ Start
    \/ Stop
    \/ \E id \in Ids : CancelEvent(id)

SpecPair == InitPair /\ [][NextPair]_vars

\* The same two events, each with a single retry.
TickFiles == {<<r, q>> : r \in PersistedRecord(1, {1}), q \in PersistedRecord(2, {1})}

InitTick == InitWith(TickFiles, TRUE)

SpecTick == InitTick /\ [][NextPair]_vars

\* Two events given to the scheduler one by one or as a batch, overdue or
\* inside the horizon, before or after start().
InitBatch == InitWith({<< >>}, TRUE)

NextBatch ==
    \/ Runs(BOOLEAN)
    \/ Start
    \/ \E id \in Ids, off \in {-1, 1} : AddEvent(id, off, 1)
    \/ \E batch \in Batches(Ids, {-1, 1}, {1}) : AddEvents(batch)

SpecBatch == InitBatch /\ [][NextBatch]_vars

\* One event that the caller adds and adds again, with a gateway that
\* succeeds or fails.
NextReAdd ==
    \/ Runs(BOOLEAN)
    \/ Start
    \/ \E off \in {-1, 1} : AddEvent(1, off, 2)
    \/ \E off \in {-1, 1} : AddEventAgain(1, off, 2)

SpecReAdd == InitBatch /\ [][NextReAdd]_vars

\* A restart: the file holds two pending events due within the horizon, the
\* caller constructs the store, starts the scheduler and calls nothing else.
RestartFiles == {f \in PairFiles : \A i \in 1..Len(f) : f[i].status = "pending"}

InitRestart == InitWith(RestartFiles, FALSE)

NextRestart ==
    \/ LoadEvents
    \/ Start
    \/ Runs(BOOLEAN)

\* The file read completes, start() is called, the interval keeps ticking, a
\* due timer fires and every gateway call returns.
FairRestart ==
    /\ WF_vars(LoadEvents)
    /\ WF_vars(Start)
    /\ WF_vars(FallbackCheck)
    /\ WF_vars(\E x \in timers : TimerFires(x))
    /\ WF_vars(\E k \in BagToSet(tasks) :
                    GatewayReturns(k, TRUE) \/ GatewayReturns(k, FALSE))

SpecRestart == InitRestart /\ [][NextRestart]_vars /\ FairRestart

\* The store on its own, at one instant: the callers add, update, remove,
\* clear and shut down; the debounce timer fires and the saves proceed step by
\* step.
StoreBatches == {<<[id |-> 1, off |-> 1, mr |-> 1], [id |-> 2, off |-> 1, mr |-> 1]>>}

InitStore == InitWith({<< >>}, TRUE)

NextStore ==
    \/ StoreAdd(1, 1, 1)
    \/ \E batch \in StoreBatches : StoreAddBatch(batch)
    \/ StoreRemove(2)
    \/ SaveTimerFires
    \/ Shutdown
    \/ Clear
    \/ \E i \in 1..Len(saves) : SaveOpens(i)
    \/ \E i \in 1..Len(saves) : SaveWrites(i)
    \/ \E i \in 1..Len(saves) : SaveRenames(i)
    \/ \E i \in 1..Len(saves) : SaveFails(i)

SpecStore == InitStore /\ [][NextStore]_vars

\* Mutations that stop: each of two events is added once, at any moment; the
\* process keeps running, so the debounce timer fires and every file
\* operation of a save completes, none of them failing.
NextSettle ==
    \/ \E id \in Ids, mr \in {1, 2} : ~Has(events, id) /\ StoreAdd(id, 1, mr)
    \/ SaveTimerFires
    \/ \E i \in 1..Len(saves) : SaveOpens(i)
    \/ \E i \in 1..Len(saves) : SaveWrites(i)
    \/ \E i \in 1..Len(saves) : SaveRenames(i)

FairSettle ==
    /\ WF_vars(SaveTimerFires)
    /\ WF_vars(\E i \in 1..Len(saves) : SaveOpens(i))
    /\ WF_vars(\E i \in 1..Len(saves) : SaveWrites(i))
    /\ WF_vars(\E i \in 1..Len(saves) : SaveRenames(i))

SpecSettle == InitStore /\ [][NextSettle]_vars /\ FairSettle

\* The store until and after its shutdown(): an event is added and marked
\* sent, time passes, the debounce timer and the cleanup interval fire, and
\* shutdown() is called, after which the callers leave the store alone.
Closing == outcome.closed \/ \E i \in 1..Len(saves) : saves[i].origin = "shutdown"

NextClose ==
    \/ ~Closing /\ ~Has(events, 1) /\ StoreAdd(1, 0 - now, 1)
    \/ ~Closing /\ Has(events, 1) /\ Get(events, 1).status = "pending" /\ StoreMarkAsSent(1)
    \/ \E d \in {1, Retention} : StoreAdvance(d)
    \/ ~Closing /\ Shutdown
    \/ SaveTimerFires
    \/ CleanupIntervalFires
    \/ \E i \in 1..Len(saves) : SaveOpens(i)
    \/ \E i \in 1..Len(saves) : SaveWrites(i)
    \/ \E i \in 1..Len(saves) : SaveRenames(i)

SpecClose == InitStore /\ [][NextClose]_vars

\* The store constructed over a file that does not parse: loadEvents()
\* completes at some point, the callers add events, the debounce timer fires
\* and the saves proceed.
InitCorrupt == InitFrom(<< >>, FALSE, Partial)

NextCorrupt ==
    \/ LoadEvents
    \/ \E id \in Ids : StoreAdd(id, 1, 1)
    \/ SaveTimerFires
    \/ \E i \in 1..Len(saves) : SaveOpens(i)
    \/ \E i \in 1..Len(saves) : SaveWrites(i)
    \/ \E i \in 1..Len(saves) : SaveRenames(i)
    \/ \E i \in 1..Len(saves) : SaveFails(i)

SpecCorrupt == InitCorrupt /\ [][NextCorrupt]_vars

\* A store of up to two records of two plugins and the filters a caller may
\* give: no status, a single one, an array (the empty one too); a plugin name;
\* dates before, among and after the records' dates.
QueryRecord(id) ==
    {[id |-> id, status |-> st, retryCount |-> 0, maxRetries |-> DefaultMaxRetries,
      scheduledFor |-> t, error |-> "none", pluginName |-> pl, updatedAt |-> 0] :
        st \in {"pending", "scheduled", "sent"}, t \in 0..MaxTime, pl \in {"tide", "coingecko"}}

QueryStores ==
    {<< >>} \cup {<<r>> : r \in QueryRecord(1)} \cup (QueryRecord(1) \X QueryRecord(2))

StatusFilters ==
    {NotGiven, Given({}), Given({"pending"}), Given({"pending", "scheduled"}),
     Given({"sent", "failed"})}

Filters ==
    {[status |-> st, pluginName |-> pl, afterDate |-> a, beforeDate |-> b] :
        st \in StatusFilters, pl \in {NotGiven, Given("tide")},
        a \in {NotGiven, Given(1)}, b \in {NotGiven} \cup {Given(t) : t \in 0..MaxTime}}

InitQuery == \E f \in QueryStores : InitFrom(f, TRUE, Complete(Serialize(f)))

NextQuery == \E filter \in Filters : QueryCall(filter)

SpecQuery == InitQuery /\ [][NextQuery]_vars

\* The cron Scheduler and its plugins.  Two plugins; schedules whose
\* descriptions normalize to one name, one with an invalid expression under the
\* name of a valid one, one that is disabled.
Tide == <<"t">>

Price == <<"p">>

Hourly == [description |-> <<"A", " ", "b">>, expression |-> <<"0", "*", "*", "*", "*">>,
           enabled |-> TRUE]

HourlyAgain == [description |-> <<"a", " ", " ", "B">>,
                expression |-> <<"*/5", "*", "*", "*", "*">>, enabled |-> TRUE]

Broken == [description |-> <<"b">>, expression |-> <<"x", "*", "*", "*", "*">>,
           enabled |-> TRUE]

Short == [description |-> <<"a">>, expression |-> <<"*", "*", "*", "*">>, enabled |-> TRUE]

Disabled == [description |-> <<"a">>, expression |-> <<"0", "*", "*", "*", "*">>,
             enabled |-> FALSE]

Daily == [description |-> <<"B">>, expression |-> <<"0", "0", "*", "*", "*">>,
          enabled |-> TRUE]

ScheduleConfigs == {Hourly, HourlyAgain, Broken, Disabled, Daily}

Plugin(name, schedules, throws) == [name |-> name, schedules |-> schedules, throws |-> throws]

\* What getEnabledPlugins() may return: the tide plugin with up to two
\* schedules or a getSchedules() that throws, alone or before the price
\* plugin with one, valid or of four fields.
TidePlugins ==
    {Plugin(Tide, << >>, TRUE)} \cup {Plugin(Tide, <<a>>, FALSE) : a \in ScheduleConfigs}
        \cup {Plugin(Tide, <<a, b>>, FALSE) : a, b \in ScheduleConfigs}

PricePlugins == {Plugin(Price, <<a>>, FALSE) : a \in {Hourly, Short}}

PluginLists ==
    {<< >>} \cup {<<t>> : t \in TidePlugins} \cup {<<t, q>> : t \in TidePlugins, q \in PricePlugins}

\* The task names of these schedules, and one that no schedule has.
TaskNames ==
    {TaskName(pl, sc.description) : pl \in {Tide, Price}, sc \in {Hourly, Daily}}
        \cup {<<"t", "-", "z">>}

InitCron == InitFrom(<< >>, TRUE, Absent)

\* start() over every plugin list, with stop, pause and removal between.
NextCronStart ==
    \/ \E plugins \in PluginLists : CronStart(plugins)
    \/ CronStop
    \/ \E name \in {TaskName(Tide, Hourly.description), TaskName(Tide, Daily.description)} :
           CronPause(name) \/ CronRemove(name)

SpecCronStart == InitCron /\ [][NextCronStart]_vars

\* One plugin list, every call of the Scheduler, and the timers firing.
NextCron ==
    \/ CronStart(<<Plugin(Tide, <<Broken, Hourly>>, FALSE), Plugin(Price, <<Daily>>, FALSE)>>)
    \/ CronStop
    \/ \E name \in TaskNames :
           CronPause(name) \/ CronResume(name) \/ CronToggle(name) \/ CronRemove(name)
    \/ \E i \in 1..2, firing \in Firings : CronFires(i, firing)

SpecCron == InitCron /\ [][NextCron]_vars

\* The service: it is started with the tide plugin's events and the cron
\* tasks of a plugin list, its start() fails or not, it is stopped, and the
\* flushes of the store proceed.
ServicePlugins ==
    {<<Plugin(Tide, <<Hourly>>, FALSE)>>, <<Plugin(Tide, <<Hourly, Daily>>, FALSE)>>}

NextService ==
    \/ \E batch \in Batches(Ids, {1}, {1}), plugins \in ServicePlugins, fails \in BOOLEAN :
           ServiceStart(batch, plugins, fails)
    \/ ServiceStop
    \/ ServiceStopCleans
    \/ ServiceStopReturns
    \/ ServiceStopThrows
    \/ SaveTimerFires
    \/ \E i \in 1..Len(saves) : SaveOpens(i)
    \/ \E i \in 1..Len(saves) : SaveWrites(i)
    \/ \E i \in 1..Len(saves) : SaveRenames(i)

SpecService == InitCron /\ [][NextService]_vars

\* The tracker of one event: the plugin asks and cleans up at any moment while
\* the clock moves on by half a minute or by the cleanup interval.
NextTracker ==
    \/ TrackerAsks
    \/ TrackerCleans
    \/ \E d \in {30, CleanupIntervalSeconds} : TrackerAdvance(d)

SpecTracker == InitCron /\ [][NextTracker]_vars

\* The store over time, its saves left aside: the callers add events (with
\* scheduledFor 0, which cleanup() does not read) and mark them sent or failed,
\* cleanup() runs, and seconds or the retention window pass.
NextCleanup ==
    \/ \E id \in Ids : StoreAdd(id, 0 - now, 1)
    \/ \E id \in Ids : StoreMarkAsScheduled(id)
    \/ \E id \in Ids : StoreMarkAsSent(id)
    \/ \E id \in Ids : StoreMarkAsFailed(id)
    \/ StoreCleanup
    \/ \E d \in {1, Retention} : StoreAdvance(d)

SpecCleanup == InitStore /\ [][NextCleanup]_vars

\* One event, a scheduler that is started, and the signals: until the process
\* exits, the timers and gateway calls run on and the flush of stop()
\* proceeds, fails or hangs.  The shutdown timeout is a timer: it fires unless
\* it is cleared.
NextSignal ==
    /\ Alive
    /\ \/ Runs({TRUE})
       \/ Start
       \/ AddEvent(1, 1, 1)
       \/ \E sig \in Signals, several \in BOOLEAN : Signal(sig, several)
       \/ \E i \in 1..Len(saves) : SaveOpens(i)
       \/ \E i \in 1..Len(saves) : SaveWrites(i)
       \/ \E i \in 1..Len(saves) : SaveRenames(i)
       \/ \E i \in 1..Len(saves) : SaveFails(i)
       \/ StopReturns
       \/ ShutdownTimeoutFires

SpecSignal == InitBatch /\ [][NextSignal]_vars /\ WF_vars(ShutdownTimeoutFires)

\* One event and a gateway that answers with any response.
NextResponses ==
    \/ FallbackCheck
    \/ \E x \in timers : TimerFires(x)
    \/ \E k \in BagToSet(tasks), r \in Responses : GatewayResponds(k, r)
    \/ Advance
    \/ Start
    \/ \E off \in {-1, 1}, mr \in {1, 2} : AddEvent(1, off, mr)

SpecResponses == InitBatch /\ [][NextResponses]_vars

\* The retries of two events: the callers add them with maxRetries =
\* MaxFailures, every attempt fails, seconds pass.
NextBackoff ==
    \/ \E id \in Ids : StoreAdd(id, 0, MaxFailures)
    \/ \E id \in Ids : StoreMarkAsFailed(id)
    \/ StoreAdvance(1)

SpecBackoff == InitStore /\ [][NextBackoff]_vars

\* ------------------------------------------------------------ the claims
Stored == {events[i] : i \in 1..Len(events)}

Terminal(status) == status \in {"sent", "failed"}

\* C1: for every event id at most one gateway call is in flight at any time.
C1_OneAttemptInFlight == \A id \in Ids : NumInFlight(id) <= 1

\* C4: once an event is sent or failed, its status does not change again as
\* long as the record is in the store.
C4_TerminalStays ==
    [][\A e \in Stored :
          Terminal(e.status) /\ Has(events', e.id) => Get(events', e.id).status = e.status]_vars

\* C5: with a gateway that fails every call, an event with maxRetries = M gets
\* exactly M delivery attempts: never more, and when it is failed it has had M
\* attempts and retryCount = M.
C5_ExactlyMAttempts ==
    \A e \in Stored :
        /\ calls[e.id] <= e.maxRetries
        /\ e.status = "failed" => calls[e.id] = e.maxRetries /\ e.retryCount = e.maxRetries

\* C6: every stored event has retryCount <= maxRetries.
C6_RetryCountBounded == \A e \in Stored : e.retryCount <= e.maxRetries

\* C8: a failure reported for an event that is already failed leaves the
\* record as it is.
C8_FailedIsNoOp ==
    [][\A k \in BagToSet(tasks) :
          /\ GatewayReturns(k, FALSE)
          /\ Has(events, k.id)
          /\ Get(events, k.id).status = "failed"
          => Get(events', k.id) = Get(events, k.id)]_vars

\* C9: with a gateway that succeeds, an event that a running scheduler was
\* given with a future scheduledFor inside the horizon gets exactly one send
\* call, and is sent.
C9_ExactlyOneSend ==
    \A e \in Stored :
        addedHow[e.id] = "armed" =>
            /\ calls[e.id] <= 1
            /\ NumInFlight(e.id) = 0 /\ calls[e.id] = 1 => e.status = "sent"

\* C7: each failed delivery attempt of a stored event raises its retryCount by
\* exactly 1; markAsFailed leaves it pending if the new retryCount is below
\* maxRetries and failed otherwise (a pending one may then be re-armed in the
\* same step, which makes it scheduled).
C7_FailureIncrements ==
    [][\A k \in BagToSet(tasks) :
          GatewayReturns(k, FALSE) /\ Has(events, k.id) =>
              LET before == Get(events, k.id)
                  marked == Get(MarkAsFailed(events, k.id, now, "failure"), k.id)
                  after == Get(events', k.id)
              IN  /\ marked.retryCount = before.retryCount + 1
                  /\ marked.status = IF marked.retryCount < marked.maxRetries
                                     THEN "pending" ELSE "failed"
                  /\ after.retryCount = before.retryCount + 1
                  /\ after.status \in IF after.retryCount < after.maxRetries
                                      THEN {"pending", "scheduled"} ELSE {"failed"}]_vars

\* A first failure left the event pending and a second one made it failed.
C7_Witness ==
    \E e \in Stored : e.maxRetries = 2 /\ e.retryCount = 2 /\ e.status = "failed"

\* An event the reconciliation pass has to pick up: pending or scheduled, due,
\* and without a live timer.
Missed(e) ==
    /\ e.status \in {"pending", "scheduled"}
    /\ e.scheduledFor <= now
    /\ ~Armed(Machine, e.id)

RestIds(k) == {k.rest[i].id : i \in 1..Len(k.rest)}

\* The events of a suspended loop that have no live timer, in the loop's order.
Unarmed(rest) == SelectSeq(rest, LAMBDA x : ~Armed(Machine, x.id))

\* C2: on a running scheduler the reconciliation callback starts a delivery
\* attempt for the first missed event and keeps every other missed event in
\* its pass; a pass that resumes starts the attempt of its next event that has
\* no live timer.
C2_TickAttemptsMissed ==
    isRunning /\ ~isShuttingDown =>
        /\ LET r == CheckForMissedEvents(Machine, now)
           IN  \A e \in Stored : Missed(e) =>
                   /\ r.task.kind = "missed"
                   /\ r.m.calls[r.task.id] = calls[r.task.id] + 1
                   /\ e.id \in {r.task.id} \cup RestIds(r.task)
        /\ \A k \in BagToSet(tasks), success \in BOOLEAN :
               k.kind = "missed" /\ Unarmed(k.rest) /= << >> =>
                   LET r == Resume(Machine, k, success, now)
                       x == Head(Unarmed(k.rest))
                   IN  /\ r.task.kind = "missed" /\ r.task.id = x.id
                       /\ r.m.calls[x.id] = calls[x.id] + 1
                       /\ RestIds(r.task) = {Unarmed(k.rest)[i].id :
                                                i \in 2..Len(Unarmed(k.rest))}

\* A pass is sending one missed event and holds another one, which a killed
\* process left scheduled and which has no timer.
C2_Witness ==
    \E k \in BagToSet(tasks) :
        /\ k.kind = "missed" /\ Len(k.rest) = 1
        /\ \E e \in Stored : e.id = k.rest[1].id /\ e.status = "scheduled" /\ Missed(e)

\* C10: once an event has been cancelled while a delivery attempt for it is in
\* flight, no further gateway call is started for it.
C10_NoFurtherAttempt ==
    [][\A id \in Ids :
          ~Has(events, id) /\ NumInFlight(id) >= 1 => calls'[id] = calls[id]]_vars

\* Every event of the file is in the store and sent or failed.
AllTerminal ==
    /\ ~loading.pending
    /\ Len(events) = 2
    /\ \A e \in Stored : Terminal(e.status)

\* C3: after a restart with pending events due within the horizon, and with no
\* further call, every event is eventually sent or failed (within the gateway
\* calls the model follows).
C3_RestartDelivers == <>(AllTerminal \/ TotalCalls = MaxCalls)

\* Both events of the file ended, one delivered and one given up, with calls
\* to spare.
C3_Witness ==
    /\ AllTerminal
    /\ tasks = EmptyBag
    /\ TotalCalls < MaxCalls
    /\ \E e, f \in Stored : e.status = "sent" /\ f.status = "failed"

\* C11: cancelEvent(id) on an id that is not in the store returns false and
\* changes nothing; on an id in the store it returns true and leaves no record
\* and no timer for the id.
C11_CancelEvent ==
    \A id \in Ids :
        LET r == CancelEventIn(Machine, id)
        IN  IF Has(events, id)
            THEN /\ r.existed
                 /\ ~Has(r.m.events, id)
                 /\ ~Armed(r.m, id)
                 /\ \A x \in r.m.timers : x.eventId /= id
            ELSE ~r.existed /\ r.m = Machine

\* C12: from stop() until the next start() the live-timer index is empty, no
\* timer is live and no event is left scheduled by a timer armed meanwhile.
C12_StoppedHasNoTimers ==
    isShuttingDown =>
        /\ scheduledTimers = {}
        /\ timers = {}

\* The handler that was suspended by this step, if the step is one in which a
\* handler of this kind started a gateway call for id.
Starts(kind, id) ==
    \E k \in BagToSet(tasks') :
        /\ k.kind = kind /\ k.id = id
        /\ tasks'[k] = (IF k \in BagToSet(tasks) THEN tasks[k] ELSE 0) + 1
        /\ calls'[id] = calls[id] + 1

StartsWith(kind, id, others) ==
    \E k \in BagToSet(tasks') :
        /\ k.kind = kind /\ k.id = id
        /\ tasks'[k] = (IF k \in BagToSet(tasks) THEN tasks[k] ELSE 0) + 1
        /\ calls'[id] = calls[id] + 1
        /\ others \subseteq RestIds(k)

\* The overdue events of a batch, by their place in it.
DueIn(batch) == {i \in 1..Len(batch) : batch[i].off <= 0}

FirstDue(batch) == CHOOSE i \in DueIn(batch) : \A j \in DueIn(batch) : i <= j

\* The pending events that are overdue and have no timer.
DuePending == {e \in Stored : e.status = "pending" /\ e.scheduledFor <= now
                              /\ ~Armed(Machine, e.id)}

\* The events a suspended loop holds that are overdue and have no timer.
DueRest(k) == SelectSeq(k.rest, LAMBDA x : x.scheduledFor <= now /\ ~Armed(Machine, x.id))

TimersOf(ts, id) == {x \in ts : x.eventId = id}

\* C14: when the arming decision arms a timer for an event (0 < delay <=
\* horizon) there is exactly one timer for it and its stored status is
\* scheduled; an event beyond the horizon gets no timer and its record is left
\* as it is.
C14_ArmedIsScheduled ==
    [][/\ \A id \in Ids :
            TimersOf(scheduledTimers, id) = {} /\ TimersOf(scheduledTimers', id) /= {} =>
                /\ Cardinality(TimersOf(timers', id)) = 1
                /\ Has(events', id)
                /\ Get(events', id).status = "scheduled"
       /\ \A e \in Stored :
            e.scheduledFor - now > Horizon /\ ~Armed(Machine, e.id) =>
                ScheduleEvent(Machine, e, now) = [m |-> Machine, send |-> FALSE]]_vars

\* shutdown() returns without error in this step: the store was clean and it
\* had nothing to flush, or its flush has renamed the temp file; no record has
\* changed since shutdown() was called.
ShutdownReturns ==
    \/ Shutdown /\ ~isDirty
    \/ \E i \in 1..Len(saves) :
           /\ saves[i].origin = "shutdown"
           /\ saves[i].data = Serialize(events)
           /\ tmp /= Absent
           /\ SaveRenames(i)

\* C15: when shutdown() returns without error the persisted file holds the
\* records the store holds in memory.
C15_ShutdownPersistsAll ==
    [][ShutdownReturns => FileRecords(file') = events']_vars

\* C16: the primary file is absent or holds a complete serialization, never a
\* partially written one.
C16_PrimaryNeverPartial == file.state \in {"absent", "complete"}

\* The records of the store are in the primary file.
Written == file.state /= "partial" /\ FileRecords(file) = events

\* C17: the mutations made since the debounce timer was armed, those of one
\* addBatch or of a run of calls, are written by one flush: when the timer
\* fires, at most one saveEvents() starts, and the records of the store are
\* held by a flush under way or are in the file already.
C17_RunWrittenByOneFlush ==
    [][SaveTimerFires =>
           /\ Len(saves') <= Len(saves) + 1
           /\ \/ \E i \in 1..Len(saves') : saves'[i].data = Serialize(events)
              \/ Written]_vars

\* C18: the error of a failing background flush does not escape the callback
\* of the debounce timer.
C18_FlushErrorContained == ~outcome.escaped

\* C19: adding an event whose id the store holds keeps one record for the id,
\* leaves its retryCount and a terminal status as they are, and starts no
\* delivery attempt for an event that is sent or armed.
C19_ReAddIsIdempotent ==
    [][\A off \in {-1, 1} :
           AddEventAgain(1, off, 2) =>
               /\ Cardinality({i \in 1..Len(events') : events'[i].id = 1}) = 1
               /\ Get(events', 1).retryCount = Get(events, 1).retryCount
               /\ Terminal(Get(events, 1).status) =>
                      Get(events', 1).status = Get(events, 1).status
               /\ Get(events, 1).status = "sent" \/ Armed(Machine, 1) => calls'[1] = calls[1]]_vars

\* The terminal records whose last update is older than the retention window.
Expired == {e \in Stored : Terminal(e.status) /\ now - e.updatedAt > Retention}

\* C20: cleanup() removes the terminal records older than the retention
\* window and no other record, returns their number, and keeps every pending
\* and every scheduled record whatever its age.
C20_CleanupRemovesExpired ==
    [][StoreCleanup =>
           /\ {events'[i] : i \in 1..Len(events')} = Stored \ Expired
           /\ Len(events') = Cardinality(Stored \ Expired)
           /\ outcome'.removedCount = Cardinality(Expired)
           /\ \A e \in Stored :
                  e.status \in {"pending", "scheduled"} =>
                      \E i \in 1..Len(events') : events'[i] = e]_vars

\* cleanup() has removed one record and kept a pending or scheduled one that
\* is older than the retention window.
C20_Witness ==
    /\ outcome.removedCount = 1
    /\ Len(events) = 1
    /\ events[1].status \in {"pending", "scheduled"}
    /\ now - events[1].updatedAt > Retention

\* The delay the retry after the Nth failure is to have, in seconds.
RetryDelay(N) ==
    CASE N = 1 -> 2 [] N = 2 -> 4 [] N = 3 -> 8 [] N = 4 -> 16 [] N = 5 -> 32
      [] OTHER -> 60

\* C21: the Nth failure of an event, N < maxRetries, leaves it pending with
\* scheduledFor at the failure time plus min(2^N, 60) seconds.
C21_BackoffDoublesToCap ==
    [][\A id \in Ids :
           StoreMarkAsFailed(id) /\ Get(events, id).retryCount + 1 < Get(events, id).maxRetries =>
               /\ Get(events', id).retryCount = Get(events, id).retryCount + 1
               /\ Get(events', id).status = "pending"
               /\ Get(events', id).scheduledFor =
                      now + RetryDelay(Get(events, id).retryCount + 1)]_vars

\* An event has failed six times or more and its retry is 60 seconds away,
\* while the other has failed three times and its retry is 8 seconds away.
C21_Witness ==
    /\ Has(events, 1) /\ Has(events, 2)
    /\ Get(events, 1).retryCount >= 6
    /\ Get(events, 1).status = "pending"
    /\ Get(events, 1).scheduledFor = Get(events, 1).updatedAt + 60
    /\ Get(events, 2).retryCount = 3
    /\ Get(events, 2).scheduledFor = Get(events, 2).updatedAt + 8

\* The responses that are client errors, and the transient failures.
ClientErrors == {r \in Responses : r.kind = "status" /\ r.status >= 400 /\ r.status < 500}

Transient == {r \in Responses : r.kind /= "status" \/ r.status >= 500}

\* This step leaves the scheduler and the store as the handler k does when
\* its gateway call ends with r.
HandledAs(k, r) ==
    LET h == Resume(Machine, k, Delivered(r), now)
    IN  /\ events' = h.m.events
        /\ timers' = h.m.timers
        /\ scheduledTimers' = h.m.scheduledTimers
        /\ calls' = h.m.calls
        /\ tasks' = IF h.task = NoTask THEN tasks (-) SetToBag({k})
                    ELSE (tasks (-) SetToBag({k})) (+) SetToBag({h.task})

\* C22: a 4xx response makes sendNotification return false, and the attempt
\* is handled as one that ended with a 5xx response, a timeout or a network
\* error: the retryCount of the event rises by 1 and the event is pending or
\* re-armed below maxRetries and failed at maxRetries.
C22_ClientErrorIsFailure ==
    [][\A k \in BagToSet(tasks), r \in ClientErrors :
          GatewayResponds(k, r) =>
              /\ ~Delivered(r)
              /\ \A t \in Transient : HandledAs(k, t)
              /\ Has(events, k.id) =>
                    LET before == Get(events, k.id)
                        after == Get(events', k.id)
                    IN  /\ after.retryCount = before.retryCount + 1
                        /\ after.status \in IF after.retryCount < after.maxRetries
                                            THEN {"pending", "scheduled"} ELSE {"failed"}
                        /\ after.retryCount < after.maxRetries =>
                               after.scheduledFor = now + Backoff(after.retryCount)]_vars

\* The gateway answered 404 and the event is armed for its retry.
C22_Witness ==
    /\ outcome.response = StatusResponse(404)
    /\ Has(events, 1)
    /\ Get(events, 1).retryCount = 1
    /\ Get(events, 1).status = "scheduled"
    /\ Armed(Machine, 1)

\* C23: a signal that starts a graceful shutdown leads to the exit of the
\* process; the process exits with 0 when the stop() of that shutdown has
\* returned without error before the timeout, and with 1 when the timeout
\* fired first or stop() threw.
C23_SignalTerminates ==
    /\ [][/\ StopReturns => proc'.exit = IF outcome.threw = "shutdown" THEN "1" ELSE "0"
          /\ ShutdownTimeoutFires => proc'.exit = "1"
          /\ Alive /\ proc'.exit = "0" =>
                 ~isRunning' /\ outcome.threw /= "shutdown" /\ (proc.stopping => FlushOver)
          /\ Alive /\ proc'.exit = "1" =>
                 proc.stopping /\ (outcome.threw = "shutdown" \/ ~FlushOver)
          /\ ~Alive => proc' = proc]_vars
    /\ (proc.stopping ~> ~Alive)

\* C24: a store whose file did not parse at construction has failed to start:
\* it does not go on as an empty store and its flushes do not replace the file.
C24_CorruptFileStopsStartup == outcome.loadError => file = Partial

\* The record e satisfies every filter that is given.
Matches(e, filter) ==
    /\ filter.status.given => e.status \in filter.status.value
    /\ filter.pluginName.given => e.pluginName = filter.pluginName.value
    /\ filter.beforeDate.given => e.scheduledFor <= filter.beforeDate.value
    /\ filter.afterDate.given => e.scheduledFor >= filter.afterDate.value

\* C25: query(filter) returns the stored records that satisfy every filter
\* given, each once and no other, in ascending order of scheduledFor, and
\* leaves the store as it is.
C25_QueryFiltersAndSorts ==
    [][outcome'.returned /= outcome.returned =>
               LET result == outcome'.returned.result
                   filter == outcome'.returned.filter
               IN  /\ {result[i] : i \in 1..Len(result)} = {e \in Stored : Matches(e, filter)}
                   /\ Len(result) = Cardinality({e \in Stored : Matches(e, filter)})
                   /\ \A i, j \in 1..Len(result) :
                          i < j => result[i].scheduledFor <= result[j].scheduledFor
                   /\ events' = events]_vars

\* A query with all four filters returned both records, the later-inserted
\* and earlier-due one first.
C25_Witness ==
    /\ outcome.returned.called
    /\ outcome.returned.filter.status.given
    /\ outcome.returned.filter.pluginName.given
    /\ outcome.returned.filter.afterDate.given
    /\ outcome.returned.filter.beforeDate.given
    /\ Len(events) = 2
    /\ events[1].scheduledFor > events[2].scheduledFor
    /\ outcome.returned.result = <<events[2], events[1]>>

\* The record of the task `name`.
TaskOf(c, name) == c.scheduledTasks[TaskIndex(c, name)]

\* The definition of a task: what pausing must not forget.
Definition(t) ==
    [name |-> t.name, expression |-> t.expression, description |-> t.description,
     pluginName |-> t.pluginName]

\* C26: for a registered task that runs, pauseTask and then resumeTask both
\* return true and leave the scheduler as it was, the task paused with its
\* definition in between; toggleTask twice does the same from either state;
\* pauseTask on a paused task, resumeTask on a running one and the three calls
\* on an unknown name return false and change nothing.
C26_PauseResumeRestores ==
    \A name \in TaskNames :
        LET p == PauseTask(cron, name)
            r == ResumeTask(p.c, name)
            t1 == ToggleTask(cron, name)
            t2 == ToggleTask(t1.c, name)
        IN  /\ HasTask(cron, name) /\ ~TaskOf(cron, name).paused =>
                   /\ p.returned /\ r.returned /\ r.c = cron
                   /\ TaskOf(p.c, name).paused /\ ~TaskOf(p.c, name).task.live
                   /\ Definition(TaskOf(p.c, name)) = Definition(TaskOf(cron, name))
                   /\ TaskOf(r.c, name).task.live
                   /\ ~ResumeTask(cron, name).returned /\ ResumeTask(cron, name).c = cron
            /\ HasTask(cron, name) /\ TaskOf(cron, name).paused =>
                   ~p.returned /\ p.c = cron
            /\ HasTask(cron, name) =>
                   /\ t1.returned /\ t2.returned /\ t2.c = cron
                   /\ TaskOf(t1.c, name).paused = ~TaskOf(cron, name).paused
                   /\ Definition(TaskOf(t1.c, name)) = Definition(TaskOf(cron, name))
            /\ ~HasTask(cron, name) =>
                   /\ ~p.returned /\ p.c = cron
                   /\ ~ResumeTask(cron, name).returned /\ ResumeTask(cron, name).c = cron
                   /\ ~t1.returned /\ t1.c = cron

\* A task was paused and resumed, and runs again.
C26_Witness ==
    /\ cron.last.op = "resumeTask"
    /\ cron.last.returned = "true"
    /\ HasTask(cron, cron.last.name)
    /\ TaskOf(cron, cron.last.name).task.live
    /\ ~TaskOf(cron, cron.last.name).paused

\* The step is a call of `op` that changed something.
CronStep(op) == cron'.last.op = op /\ cron' /= cron

\* C27: a start() leaves every task that was registered, and its timer, as
\* they were; and no name ever has two tasks or two live timers.
C27_OneTaskPerName ==
    /\ [][CronStep("start") =>
              /\ Len(cron'.scheduledTasks) >= Len(cron.scheduledTasks)
              /\ \A i \in 1..Len(cron.scheduledTasks) :
                     cron'.scheduledTasks[i] = cron.scheduledTasks[i]
              /\ cron'.detached = cron.detached]_vars
    /\ [](\A i, j \in 1..Len(cron.scheduledTasks) :
              cron.scheduledTasks[i].name = cron.scheduledTasks[j].name => i = j)
    /\ [](\A i, j \in 1..Len(LiveTimers(cron)) :
              LiveTimers(cron)[i] = LiveTimers(cron)[j] => i = j)

\* start() met two schedules of one name while a paused task held that name:
\* the task is the only one, still paused, with its first expression.
C27_Witness ==
    /\ cron.last.op = "start"
    /\ cron.last.plugins = <<Plugin(Tide, <<HourlyAgain, Hourly>>, FALSE)>>
    /\ Len(cron.scheduledTasks) = 1
    /\ cron.scheduledTasks[1].name = TaskName(Tide, Hourly.description)
    /\ cron.scheduledTasks[1].expression = Hourly.expression
    /\ cron.scheduledTasks[1].paused

\* The enabled schedules of the plugins whose getSchedules() returned, as
\* pairs of task name and schedule.
Enabled(plugins) ==
    {[name |-> TaskName(plugins[i].name, plugins[i].schedules[k].description),
      schedule |-> plugins[i].schedules[k]] :
        <<i, k>> \in {x \in (1..Len(plugins)) \X (1..2) :
                         /\ ~plugins[x[1]].throws
                         /\ x[2] <= Len(plugins[x[1]].schedules)
                         /\ plugins[x[1]].schedules[x[2]].enabled}}

\* C28: a start() that meets an invalid cron expression resolves, registers no
\* task with that expression, and every enabled schedule with a valid
\* expression has its task in the Map, running when this start() registered it.
C28_InvalidCronSkipped ==
    [][LET plugins == cron'.last.plugins
       IN  CronStep("start") /\ (\E e \in Enabled(plugins) : ~Validate(e.schedule.expression)) =>
               /\ cron'.last.returned = "resolved"
               /\ cron'.running
               /\ \A i \in 1..Len(cron'.scheduledTasks) :
                      Validate(cron'.scheduledTasks[i].expression)
               /\ \A e \in Enabled(plugins) :
                      Validate(e.schedule.expression) =>
                          /\ HasTask(cron', e.name)
                          /\ ~HasTask(cron, e.name) =>
                                 TaskOf(cron', e.name).task.live /\ ~TaskOf(cron', e.name).paused]_vars

\* start() met an invalid expression first, then a valid one of the same task
\* name, then another plugin: both valid schedules run.
C28_Witness ==
    /\ cron.last.op = "start"
    /\ cron.last.plugins = <<Plugin(Tide, <<Broken, Daily>>, FALSE),
                             Plugin(Price, <<Hourly>>, FALSE)>>
    /\ Len(cron.scheduledTasks) = 2
    /\ cron.scheduledTasks[1].name = TaskName(Tide, Daily.description)
    /\ cron.scheduledTasks[1].expression = Daily.expression
    /\ cron.scheduledTasks[2].name = TaskName(Price, Hourly.description)
    /\ \A i \in 1..2 : cron.scheduledTasks[i].task.live

\* C29: once stop() has returned and until start() is called, the Map is
\* empty and no cron timer is live; a timer fires a plugin check only while
\* the scheduler runs.
C29_StopDiscardsTimers ==
    /\ [](~cron.running => cron.scheduledTasks = << >> /\ LiveTimers(cron) = << >>)
    /\ [][CronStep("stop") => cron'.scheduledTasks = << >> /\ LiveTimers(cron') = << >>]_vars
    /\ [][CronStep("fire") => cron.running /\ cron'.running]_vars

\* stop() found a paused task and a running one, whose timer had fired.
C29_Witness ==
    /\ cron.last.op = "stop"
    /\ Len(cron.last.before) = 2
    /\ cron.last.before[1].paused
    /\ cron.last.before[2].task.live
    /\ cron.jobs /= << >>
    /\ cron.jobs[Len(cron.jobs)].name = cron.last.before[2].name

\* C30: a firing in which checkConditions or the sending throws ends in the
\* catch of executePluginTask: the scheduler runs on, the Map and every timer
\* are as before, so that every task may fire again.
C30_TaskErrorContained ==
    /\ [][CronStep("fire") /\ cron'.last.returned \in Throws =>
              /\ cron'.jobs[Len(cron'.jobs)] = [name |-> cron'.last.name, job |-> "failed"]
              /\ cron'.running = cron.running
              /\ cron'.scheduledTasks = cron.scheduledTasks
              /\ LiveTimers(cron') = LiveTimers(cron)]_vars
    /\ [](cron.last.op = "fire" /\ cron.last.returned \in Throws =>
              \A i \in 1..Len(LiveTimers(cron)), firing \in Firings :
                  ENABLED CronFires(i, firing))

\* A task failed and then completed, while the other task is registered and
\* runs.
C30_Witness ==
    /\ Len(cron.jobs) = 2
    /\ cron.jobs[1].job = "failed"
    /\ cron.jobs[2] = [name |-> cron.jobs[1].name, job |-> "completed"]
    /\ cron.running
    /\ Len(LiveTimers(cron)) = 2

\* C31: when a delivery attempt of a running scheduler fails and the failure
\* leaves the event pending, the failure handling itself leaves the event
\* scheduled, with a live indexed timer for its new scheduledFor.
C31_FailureRearms ==
    \A k \in BagToSet(tasks) :
        LET failed == MarkAsFailed(events, k.id, now, "failure")
            m == AfterGateway(Machine, k.id, FALSE, now)
        IN  /\ isRunning /\ ~isShuttingDown
            /\ Has(failed, k.id) /\ Get(failed, k.id).status = "pending"
            => /\ Get(m.events, k.id).status = "scheduled"
               /\ Get(m.events, k.id).scheduledFor = now + Backoff(Get(m.events, k.id).retryCount)
               /\ TimerEntry(Get(m.events, k.id)) \in m.timers
               /\ TimerEntry(Get(m.events, k.id)) \in m.scheduledTimers

\* C32: once the mutations have stopped, and the process being up, the primary
\* file comes to hold the records of the Map and keeps holding them.
C32_FileCatchesUp == <>[](Up => Written)

\* C33: at most one reconciliation interval is live at any time, and none
\* while the scheduler is stopped, however start() and stop() interleave.
C33_OneInterval ==
    /\ liveIntervals <= 1
    /\ ~isRunning => liveIntervals = 0

\* C34: every entry of the live-timer index belongs to a stored record whose
\* status is scheduled and whose scheduledFor is the instant the timer was
\* armed for.
C34_IndexMatchesStore ==
    \A x \in scheduledTimers :
        /\ Has(events, x.eventId)
        /\ Get(events, x.eventId).status = "scheduled"
        /\ Get(events, x.eventId).scheduledFor = x.scheduledFor

\* C35: an event id has at most one live timer and every live timer is in the
\* index: arming an indexed id adds no timer, and cancelEvent(id) and stop()
\* leave no timer whose index entry they dropped.
C35_TimersAreIndexed ==
    /\ timers \subseteq scheduledTimers
    /\ \A id \in Ids : Cardinality(TimersOf(timers, id)) <= 1
    /\ \A id \in Ids : Cardinality(TimersOf(scheduledTimers, id)) <= 1

\* A running scheduler after cancelEvent removed an event that was armed when
\* it was added and has never been attempted: no timer, no index entry.
C35_Witness ==
    /\ isRunning
    /\ addedHow[1] = "armed"
    /\ calls[1] = 0
    /\ ~Has(events, 1)
    /\ timers = {} /\ scheduledTimers = {}

\* C36: from stop() until the next start() no gateway call is started: the
\* timer callbacks, the re-arms after a failure and the loops under way send
\* nothing.
C36_StoppedSendsNothing ==
    [][isShuttingDown /\ isShuttingDown' => calls' = calls]_vars

\* A stopped scheduler in which the timer armed after a failed attempt has
\* fired and sent nothing: its event is overdue and still scheduled, and no
\* handler is suspended.
C36_Witness ==
    /\ isShuttingDown
    /\ tasks = EmptyBag
    /\ timers = {}
    /\ \E e \in Stored :
          /\ e.status = "scheduled" /\ e.scheduledFor <= now
          /\ e.retryCount = 1 /\ calls[e.id] = 1

\* C37: once shutdown() has returned, neither the debounce timer's flush nor
\* a pass of the cleanup interval runs.
C37_ShutdownEndsBackground ==
    [][outcome.closed => ~SaveTimerFires /\ ~CleanupIntervalFires]_vars

\* C38: once start() of the service has thrown, no event timer, no
\* reconciliation interval and no cron task is left running.
C38_FailedStartLeavesNothing ==
    Service.threw =>
        /\ timers = {}
        /\ liveIntervals = 0
        /\ LiveTimers(cron) = << >>

\* C39: when stop() of the service returns, every event that was pending or
\* scheduled when it began is in the persisted file with status pending.
C39_StopKeepsUndelivered ==
    [][Service.isRunning /\ ~Service'.isRunning =>
           /\ file'.state = "complete"
           /\ \A id \in Service.undelivered :
                 \E i \in 1..Len(file'.data) :
                     /\ file'.data[i].id = id
                     /\ file'.data[i].status = "pending"]_vars

====
